---------------------------- MODULE Spec2Model ----------------------------
(***************************************************************************)
(* A model of the authentication-and-orchestration core of                 *)
(* youtube-ai-video-gen: the session codec (lib/auth/session), the Access  *)
(* token verifier and dev bypass (lib/auth/access), the request gate       *)
(* (middleware.ts) and the three generation route handlers with the D1     *)
(* accessors they call (lib/db/client).                                    *)
(*                                                                         *)
(* JavaScript strings that the code inspects character by character        *)
(* (session tokens) are sequences of character codes 0..255; all other     *)
(* strings are TLA+ strings.  null and undefined are the string Null.      *)
(***************************************************************************)
EXTENDS Integers, Sequences, FiniteSets, TLC

VARIABLES
    users, projects, project_versions, assets, generation_jobs,  \* the D1 tables, sets of rows
    CACHE,          \* the KV namespace, a set of entries
    MEDIA_BUCKET,   \* the R2 bucket, the set of object keys
    handlers,       \* the route handler invocations in flight, one per slot
    started,        \* the number of generation requests received
    generated,      \* the number of scripts the provider has returned
    env,            \* process.env, a record of the variables the code reads
    keyPromise,     \* session.ts: let keyPromise (Null or the imported secret)
    cachedConfig,   \* access.ts: let cachedConfig (<<>> or <<config>>)
    cachedJwks,     \* access.ts: let cachedJwks (Null or the URL it was built for)
    sPhase,         \* session codec run: "idle", "created", "tampered", "parsed"
    sIdentity,      \* the identity given to createSessionValue
    sValue,         \* the session token, a sequence of character codes
    sFlip,          \* the single-bit mutation applied to sValue (<<>> if none)
    sParsed,        \* the result of parseSessionValue
    pIn,            \* parseSessionValue call: its argument (<<>> when idle)
    pOut,           \* parseSessionValue call: its result
    dbCalls,        \* calls of the D1 accessors made directly, one per client
    dbIssued,       \* the number of such calls made
    dbInterleaved,  \* the projects for which two insertProjectVersion calls overlapped
    bIn,            \* getDevBypassIdentity call: its headers (<<>> when idle)
    bOut,           \* getDevBypassIdentity call: its result
    vIn,            \* verifyAccessToken call: <<token, network>> (<<>> when idle)
    vOut,           \* verifyAccessToken call: its result
    gReq,           \* the request the gate handled last (<<>> when idle)
    gOut,           \* what the gate did with it
    kIn,            \* resolveAccessConfig or getKey call: <<name>> (<<>> when idle)
    kOut,           \* that call's result
    kFirst          \* history: what the first successful call of each returned

procVars == <<env, keyPromise, cachedConfig, cachedJwks>>
sessVars == <<sPhase, sIdentity, sValue, sFlip, sParsed>>
parseVars == <<pIn, pOut>>
accessorVars == <<dbCalls, dbIssued, dbInterleaved>>
bypassVars == <<bIn, bOut>>
verifyVars == <<vIn, vOut>>
gateVars == <<gReq, gOut>>
memoVars == <<kIn, kOut, kFirst>>
orchVars == <<users, projects, project_versions, assets, generation_jobs, CACHE,
             MEDIA_BUCKET, handlers, started, generated>>
vars == <<procVars, sessVars, parseVars, bypassVars, verifyVars, gateVars, memoVars, accessorVars,
          orchVars>>

\* Handler invocations in flight at once, requests received in all, and
\* sections of one tts request.
MaxSlots == 2
MaxRequests == 2
MaxSections == 2
\* Accessor calls in progress at once, and the insertProjectVersion and
\* ensureUser calls made in all.
MaxClients == 2
MaxCalls == 4
MaxUserCalls == 3

Null == "null"

(***************************************************************************)
(* Environment (lib/env).                                                  *)
(***************************************************************************)
EnvNames == {"NODE_ENV", "SESSION_SECRET", "DEV_AUTH_BYPASS_SESSION",
             "DEV_AUTH_BYPASS_TOKEN", "CF_ACCESS_AUD", "CF_ACCESS_JWT_ALG",
             "CF_ACCESS_CERTS_URL", "CF_ACCESS_TEAM_DOMAIN", "CF_ACCESS_LOGIN_URL"}

getEnv(e, name) == e[name]

\* requireEnv throws on undefined and on the empty string (!value).
requireEnvThrows(e, name) == getEnv(e, name) = Null \/ getEnv(e, name) = ""

(***************************************************************************)
(* Session codec (lib/auth/session).                                       *)
(***************************************************************************)
Pow2(k) == 2 ^ k

\* The base64 alphabet of btoa/atob: value 0..63 to character code.
B64Char(v) ==
    IF v < 26 THEN 65 + v
    ELSE IF v < 52 THEN 97 + (v - 26)
    ELSE IF v < 62 THEN 48 + (v - 52)
    ELSE IF v = 62 THEN 43 ELSE 47

\* Character code to value, -1 for a character outside the alphabet.
B64Val(c) ==
    IF c >= 65 /\ c <= 90 THEN c - 65
    ELSE IF c >= 97 /\ c <= 122 THEN c - 97 + 26
    ELSE IF c >= 48 /\ c <= 57 THEN c - 48 + 52
    ELSE IF c = 43 THEN 62
    ELSE IF c = 47 THEN 63 ELSE -1

ReplaceChar(s, from, to) == [i \in 1..Len(s) |-> IF s[i] = from THEN to ELSE s[i]]
RemoveChar(s, c) == SelectSeq(s, LAMBDA x : x # c)
Repeat(c, n) == [i \in 1..n |-> c]

\* btoa(String.fromCharCode(...data)): standard base64 with '=' padding.
btoa(data) ==
    LET n == Len(data)
        nChars == (8 * n + 5) \div 6
        total == 4 * ((n + 2) \div 3)
        Byte(j) == IF j <= n THEN data[j] ELSE 0
        Val(i) ==
            LET p == 6 * (i - 1)
                j == p \div 8 + 1
                off == p % 8
            IN  CASE off = 0 -> Byte(j) \div 4
                  [] off = 6 -> (Byte(j) % 4) * 16 + Byte(j + 1) \div 16
                  [] off = 4 -> (Byte(j) % 16) * 4 + Byte(j + 1) \div 64
                  [] off = 2 -> Byte(j) % 64
    IN  [i \in 1..total |-> IF i > nChars THEN 61 ELSE B64Char(Val(i))]

IsAsciiWhitespace(c) == c \in {9, 10, 12, 13, 32}

\* atob: the forgiving-base64 decode.  ASCII whitespace is removed, up to two
\* trailing '=' are removed when the length is a multiple of 4, a length of
\* 1 mod 4 or a character outside the alphabet is an InvalidCharacterError,
\* and the bits of the last character beyond a whole byte are discarded.
atob(s) ==
    LET s1 == SelectSeq(s, LAMBDA c : ~IsAsciiWhitespace(c))
        n1 == Len(s1)
        s2 == IF n1 % 4 = 0 /\ n1 >= 2 /\ s1[n1] = 61 /\ s1[n1 - 1] = 61
                  THEN SubSeq(s1, 1, n1 - 2)
              ELSE IF n1 % 4 = 0 /\ n1 >= 1 /\ s1[n1] = 61
                  THEN SubSeq(s1, 1, n1 - 1)
              ELSE s1
        n == Len(s2)
        bad == n % 4 = 1 \/ \E i \in 1..n : B64Val(s2[i]) = -1
        V(i) == B64Val(s2[i])
        nBytes == (6 * n) \div 8
        ByteAt(j) ==
            LET p == 8 * (j - 1)
                i == p \div 6 + 1
                off == p % 6
            IN  CASE off = 0 -> V(i) * 4 + V(i + 1) \div 16
                  [] off = 2 -> (V(i) % 16) * 16 + V(i + 1) \div 4
                  [] off = 4 -> (V(i) % 4) * 64 + V(i + 1)
    IN  IF bad THEN [ok |-> FALSE, bytes |-> <<>>]
        ELSE [ok |-> TRUE, bytes |-> [j \in 1..nBytes |-> ByteAt(j)]]

base64UrlEncode(data) ==
    ReplaceChar(ReplaceChar(RemoveChar(btoa(data), 61), 43, 45), 47, 95)

base64UrlDecode(value) ==
    LET padded == ReplaceChar(ReplaceChar(value, 45, 43), 95, 47)
        padLength == (4 - (Len(padded) % 4)) % 4
    IN  atob(padded \o Repeat(61, padLength))

\* getSessionSecret throws when SESSION_SECRET is missing or shorter than 32.
getSessionSecretThrows(e) ==
    requireEnvThrows(e, "SESSION_SECRET") \/ Len(getEnv(e, "SESSION_SECRET")) < 32

\* The mutant: the key is imported from the secret at every call.
getKeyUncached(e, kp) ==
    IF getSessionSecretThrows(e) THEN [ok |-> FALSE, key |-> Null, keyPromise |-> kp]
    ELSE [ok |-> TRUE, key |-> getEnv(e, "SESSION_SECRET"),
          keyPromise |-> getEnv(e, "SESSION_SECRET")]

\* getKey: the key is imported from the secret on first use and memoised in
\* keyPromise; a throwing getSessionSecret leaves keyPromise unset.
getKey(e, kp) ==
    IF kp # Null THEN [ok |-> TRUE, key |-> kp, keyPromise |-> kp]
    ELSE IF getSessionSecretThrows(e) THEN [ok |-> FALSE, key |-> Null, keyPromise |-> kp]
    ELSE [ok |-> TRUE, key |-> getEnv(e, "SESSION_SECRET"),
          keyPromise |-> getEnv(e, "SESSION_SECRET")]

\* The strings a session payload can carry, in a fixed order: JSON text is
\* modelled one byte per member, 32 * member + index of the value.
PayloadStrings == <<"a", "b", "", "e@x", "Ann", "dev@example.com", "Dev User",
                    "dev-dev@example.com", "d@x", "dev-d@x", "Dan", "dsub">>
StrCode(s) == CHOOSE i \in 1..Len(PayloadStrings) : PayloadStrings[i] = s

\* encoder.encode(JSON.stringify(payload)): members in insertion order (sub,
\* email, name, issuedAt), undefined members omitted.
JSONstringify(p) ==
    (IF p.sub = Null THEN <<>> ELSE <<32 + StrCode(p.sub)>>)
    \o (IF p.email = Null THEN <<>> ELSE <<64 + StrCode(p.email)>>)
    \o (IF p.name = Null THEN <<>> ELSE <<96 + StrCode(p.name)>>)
    \o <<128 + p.issuedAt>>

\* JSON.parse(decoder.decode(bytes)): a SyntaxError for bytes that are no
\* member; a repeated member keeps its last value.
JSONparse(bytes) ==
    LET Member(b) == b \div 32
        Code(b) == b % 32
        okByte(b) == \/ Member(b) \in 1..3 /\ Code(b) \in 1..Len(PayloadStrings)
                     \/ Member(b) = 4
        Last(m) == CHOOSE i \in 1..Len(bytes) :
                       /\ Member(bytes[i]) = m
                       /\ \A j \in (i + 1)..Len(bytes) : Member(bytes[j]) # m
        Has(m) == \E i \in 1..Len(bytes) : Member(bytes[i]) = m
        Str(m) == IF Has(m) THEN PayloadStrings[Code(bytes[Last(m)])] ELSE Null
    IN  IF Len(bytes) = 0 \/ \E i \in 1..Len(bytes) : ~okByte(bytes[i])
        THEN [ok |-> FALSE, payload |-> [sub |-> Null, email |-> Null, name |-> Null, issuedAt |-> -1]]
        ELSE [ok |-> TRUE,
              payload |-> [sub |-> Str(1), email |-> Str(2), name |-> Str(3),
                           issuedAt |-> IF Has(4) THEN Code(bytes[Last(4)]) ELSE -1]]

\* crypto.subtle.sign("HMAC", key, data).  HMAC-SHA256 is a keyed function
\* without collisions whose 32-byte output leaves 2 unused bits in the last
\* base64 character; here 8 bytes (also 2 mod 3), one-to-one in the data.
SessionSecrets == <<"0123456789abcdef0123456789abcdef", "fedcba9876543210fedcba9876543210">>
KeyByte(key) == 77 * (CHOOSE i \in 1..Len(SessionSecrets) : SessionSecrets[i] = key)
hmacSign(key, data) ==
    LET P == <<Len(data)>> \o data \o Repeat(0, 8)
    IN  [i \in 1..8 |-> (P[i] + KeyByte(key) * i) % 256]

\* crypto.subtle.verify("HMAC", key, signature, data)
hmacVerify(key, signature, data) == signature = hmacSign(key, data)

\* createSessionValue(identity) at time now.
createSessionValue(identity, now, e, kp) ==
    LET payload == [sub |-> identity.sub, email |-> identity.email,
                    name |-> identity.name, issuedAt |-> now]
        data == JSONstringify(payload)
        k == getKey(e, kp)
    IN  IF ~k.ok THEN [ok |-> FALSE, value |-> <<>>, keyPromise |-> k.keyPromise]
        ELSE [ok |-> TRUE,
              value |-> base64UrlEncode(data) \o <<46>> \o base64UrlEncode(hmacSign(k.key, data)),
              keyPromise |-> k.keyPromise]

\* value.split("."): the text before the first '.', and the text between
\* the first and the second '.' (Null, for undefined, without a first '.').
SplitDot(value) ==
    LET dots == {i \in 1..Len(value) : value[i] = 46}
        Min(S) == CHOOSE x \in S : \A y \in S : x <= y
        d1 == IF dots = {} THEN Len(value) + 1 ELSE Min(dots)
        rest == {i \in dots : i > d1}
        d2 == IF rest = {} THEN Len(value) + 1 ELSE Min(rest)
    IN  [first |-> SubSeq(value, 1, d1 - 1),
         hasSecond |-> dots # {},
         second |-> IF dots = {} THEN <<>> ELSE SubSeq(value, d1 + 1, d2 - 1)]

NoPayload == [sub |-> Null, email |-> Null, name |-> Null, issuedAt |-> -1]

\* The mutant: the two parts are decoded before the try block, so that an
\* InvalidCharacterError of atob leaves the function.
parseSessionValueDecodeOutsideTry(value, e, kp) ==
    LET parts == SplitDot(value)
        none == [isNull |-> TRUE, payload |-> NoPayload, keyPromise |-> kp, threw |-> FALSE]
        dataBytes == base64UrlDecode(parts.first)
        signatureBytes == base64UrlDecode(parts.second)
        k == getKey(e, kp)
        json == JSONparse(dataBytes.bytes)
    IN  IF Len(value) = 0 THEN none
        ELSE IF Len(parts.first) = 0 \/ ~parts.hasSecond \/ Len(parts.second) = 0 THEN none
        ELSE IF ~dataBytes.ok \/ ~signatureBytes.ok THEN [none EXCEPT !.threw = TRUE]
        ELSE IF ~k.ok THEN [none EXCEPT !.keyPromise = k.keyPromise]
        ELSE IF ~hmacVerify(k.key, signatureBytes.bytes, dataBytes.bytes)
            THEN [none EXCEPT !.keyPromise = k.keyPromise]
        ELSE IF ~json.ok THEN [none EXCEPT !.keyPromise = k.keyPromise]
        ELSE [isNull |-> FALSE, payload |-> json.payload, keyPromise |-> k.keyPromise,
              threw |-> FALSE]

\* parseSessionValue(value): isNull is TRUE for a null result; threw says
\* that an exception left the function (everything that can throw is inside
\* the try block, whose catch returns null).
parseSessionValue(value, e, kp) ==
    LET parts == SplitDot(value)
        none == [isNull |-> TRUE, payload |-> NoPayload, keyPromise |-> kp, threw |-> FALSE]
        dataBytes == base64UrlDecode(parts.first)
        signatureBytes == base64UrlDecode(parts.second)
        k == getKey(e, kp)
        json == JSONparse(dataBytes.bytes)
    IN  IF Len(value) = 0 THEN none
        ELSE IF Len(parts.first) = 0 \/ ~parts.hasSecond \/ Len(parts.second) = 0 THEN none
        ELSE IF ~dataBytes.ok \/ ~signatureBytes.ok THEN none
        ELSE IF ~k.ok THEN [none EXCEPT !.keyPromise = k.keyPromise]
        ELSE IF ~hmacVerify(k.key, signatureBytes.bytes, dataBytes.bytes)
            THEN [none EXCEPT !.keyPromise = k.keyPromise]
        ELSE IF ~json.ok THEN [none EXCEPT !.keyPromise = k.keyPromise]
        ELSE [isNull |-> FALSE, payload |-> json.payload, keyPromise |-> k.keyPromise,
              threw |-> FALSE]

\* One bit of one character of a string flipped.
FlipBit(s, i, k) ==
    [s EXCEPT ![i] = IF (s[i] \div Pow2(k)) % 2 = 1 THEN s[i] - Pow2(k) ELSE s[i] + Pow2(k)]

\* The values of a call's variables while no call is in progress.
NoIdentity == [sub |-> Null, email |-> Null, name |-> Null, token |-> Null]

NoDevIdentity == [isNull |-> TRUE, sub |-> Null, email |-> Null, name |-> Null]

\* A direct call of an accessor of lib/db/client: op is "ensureUser" or
\* "insertProjectVersion", pc the await it is suspended at ("idle" without a
\* call, "done" once it has returned or thrown), then its parameters and
\* locals (existing, id, lastVersion), what it returned (returned, version)
\* and whether it threw (cause is the error).  found and created are
\* history: whether the SELECT found a row, whether the call inserted one.
NoUser == [id |-> Null, access_sub |-> Null, email |-> Null, name |-> Null]

IdleCall ==
    [op |-> Null, pc |-> "idle", sub |-> Null, email |-> Null, name |-> Null,
     projectId |-> Null, id |-> Null, existing |-> NoUser, returned |-> NoUser,
     lastVersion |-> 0, version |-> 0, threw |-> FALSE, cause |-> Null,
     found |-> FALSE, created |-> FALSE]

Clients == 1..MaxClients

InitAccessorIdle ==
    /\ dbCalls = [c \in Clients |-> IdleCall]
    /\ dbIssued = 0
    /\ dbInterleaved = {}

\* The result of a resolveAccessConfig or getKey call: ok = FALSE when it
\* threw, else config (<<the AccessConfig>>) or key is what it returned.
NoMemo == [ok |-> FALSE, config |-> <<>>, key |-> Null]

InitAuthIdle ==
    /\ InitAccessorIdle
    /\ pIn = <<>>
    /\ pOut = [isNull |-> TRUE, payload |-> NoPayload, threw |-> FALSE]
    /\ bIn = <<>>
    /\ bOut = NoDevIdentity
    /\ vIn = <<>>
    /\ vOut = [type |-> "none", identity |-> NoIdentity, error |-> Null, raised |-> Null,
               cachedConfig |-> <<>>, cachedJwks |-> Null, fetched |-> FALSE]
    /\ gReq = <<>>
    /\ gOut = <<>>
    /\ kIn = <<>>
    /\ kOut = NoMemo
    /\ kFirst = [config |-> <<>>, key |-> Null]

authVars == <<parseVars, bypassVars, verifyVars, gateVars, memoVars>>

Slots == 1..MaxSlots

NoResponse == [status |-> 0, cached |-> FALSE, result |-> Null, error |-> Null]

NoPayloadBody ==
    [json |-> TRUE, projectId |-> Null, topic |-> Null, persona |-> Null,
     lengthMinutes |-> Null, language |-> Null, regenerate |-> FALSE,
     prompt |-> Null, sections |-> <<>>]

\* A handler invocation.  pc is the await it is suspended at ("idle" when
\* the slot is free, "done" when it has ended); threw says that it ended
\* with an exception instead of a response.  The rest is history: n is the
\* request's number, made the kinds of rows and objects it wrote,
\* providerCalls the provider calls it made, first and firstValue the writer
\* and the value of the cache entry under its key when it started (0 and
\* Null when there was none), expired and overwritten whether that entry
\* expired or was written again before the request read the cache, fresh
\* whether the subject had no User row when the request arrived, bodyRead
\* whether request.json() was called, selected whether insertProjectVersion
\* has read the project's last version.
IdleHandler ==
    [pc |-> "idle", n |-> 0, route |-> Null, sub |-> Null, email |-> Null, name |-> Null,
     fresh |-> FALSE, bodyRead |-> FALSE, selected |-> FALSE,
     payload |-> NoPayloadBody, user |-> Null, project |-> Null, job |-> Null,
     result |-> Null, lastVersion |-> 0, i |-> 0, key |-> Null, cause |-> Null,
     results |-> <<>>, response |-> NoResponse, threw |-> FALSE,
     made |-> {}, providerCalls |-> 0, first |-> 0, firstValue |-> Null,
     expired |-> FALSE, overwritten |-> FALSE]

InitOrch ==
    /\ users = {}
    /\ projects = {}
    /\ project_versions = {}
    /\ assets = {}
    /\ generation_jobs = {}
    /\ CACHE = {}
    /\ MEDIA_BUCKET = {}
    /\ handlers = [s \in Slots |-> IdleHandler]
    /\ started = 0
    /\ generated = 0

(***************************************************************************)
(* SpecSession: createSessionValue, a single-bit mutation of the token in  *)
(* transit, and parseSessionValue, under one process-wide key.             *)
(***************************************************************************)
SessionIdentities == [sub : {"a", "b"}, email : {Null, "e@x"}, name : {Null, "Ann"}]
SessionTimes == {0, 1}

BaseEnv == [n \in EnvNames |-> Null]

InitProc ==
    /\ keyPromise = Null
    /\ cachedConfig = <<>>
    /\ cachedJwks = Null

InitSessIdle ==
    /\ sPhase = "idle"
    /\ sIdentity = [sub |-> Null, email |-> Null, name |-> Null]
    /\ sValue = <<>>
    /\ sFlip = <<>>
    /\ sParsed = [isNull |-> TRUE, payload |-> NoPayload]

InitSession ==
    /\ \E s \in {SessionSecrets[1], SessionSecrets[2]} :
           env = [BaseEnv EXCEPT !["SESSION_SECRET"] = s]
    /\ InitProc
    /\ InitSessIdle
    /\ InitAuthIdle
    /\ InitOrch

SessCreate(identity, now) ==
    /\ sPhase = "idle"
    /\ LET r == createSessionValue(identity, now, env, keyPromise)
       IN  /\ r.ok
           /\ sValue' = r.value
           /\ keyPromise' = r.keyPromise
    /\ sIdentity' = identity
    /\ sPhase' = "created"
    /\ UNCHANGED <<env, cachedConfig, cachedJwks, sFlip, sParsed, authVars,
                   accessorVars, orchVars>>

SessTamper(i, k) ==
    /\ sPhase = "created"
    /\ i \in 1..Len(sValue)
    /\ sValue' = FlipBit(sValue, i, k)
    /\ sFlip' = <<i, k>>
    /\ sPhase' = "tampered"
    /\ UNCHANGED <<procVars, sIdentity, sParsed, authVars, accessorVars, orchVars>>

SessParse ==
    /\ sPhase \in {"created", "tampered"}
    /\ LET r == parseSessionValue(sValue, env, keyPromise)
       IN  /\ sParsed' = [isNull |-> r.isNull, payload |-> r.payload]
           /\ keyPromise' = r.keyPromise
    /\ sPhase' = "parsed"
    /\ UNCHANGED <<env, cachedConfig, cachedJwks, sIdentity, sValue, sFlip, authVars,
                   accessorVars, orchVars>>

SessReset ==
    /\ sPhase = "parsed"
    /\ sPhase' = "idle"
    /\ sIdentity' = [sub |-> Null, email |-> Null, name |-> Null]
    /\ sValue' = <<>>
    /\ sFlip' = <<>>
    /\ sParsed' = [isNull |-> TRUE, payload |-> NoPayload]
    /\ UNCHANGED <<procVars, authVars, accessorVars, orchVars>>

NextSession ==
    \/ \E identity \in SessionIdentities, now \in SessionTimes : SessCreate(identity, now)
    \/ \E i \in 1..20, k \in 0..7 : SessTamper(i, k)
    \/ SessParse
    \/ SessReset

SpecSession == InitSession /\ [][NextSession]_vars

(***************************************************************************)
(* C10: for all identities parseSessionValue(createSessionValue(identity)) *)
(* has the identity's sub, and for any single-bit mutation of a signed     *)
(* session token parseSessionValue returns null.                           *)
(***************************************************************************)
C10_RoundTripAndTamper ==
    sPhase = "parsed" =>
        IF sFlip = <<>>
        THEN ~sParsed.isNull /\ sParsed.payload.sub = sIdentity.sub
        ELSE sParsed.isNull

\* The round-trip half alone.
C10_RoundTrip ==
    (sPhase = "parsed" /\ sFlip = <<>>) =>
        (~sParsed.isNull /\ sParsed.payload.sub = sIdentity.sub
            /\ sParsed.payload.email = sIdentity.email
            /\ sParsed.payload.name = sIdentity.name)

\* A mutated token is accepted only with the payload that was signed.
C10_TamperedKeepsPayload ==
    (sPhase = "parsed" /\ sFlip # <<>> /\ ~sParsed.isNull) =>
        (sParsed.payload.sub = sIdentity.sub
            /\ sParsed.payload.email = sIdentity.email
            /\ sParsed.payload.name = sIdentity.name)

(***************************************************************************)
(* SpecParse: parseSessionValue on the cookie values a client can send     *)
(* (absent, empty, malformed, signed under another secret, spliced from    *)
(* two tokens, signed but no JSON), under a usable or unusable secret.     *)
(***************************************************************************)
\* encodedData.signature for the bytes data under the secret key.
Signed(data, key) ==
    base64UrlEncode(data) \o <<46>> \o base64UrlEncode(hmacSign(key, data))

ParsePayloads ==
    {JSONstringify([sub |-> "a", email |-> "e@x", name |-> Null, issuedAt |-> 0]),
     JSONstringify([sub |-> "b", email |-> Null, name |-> "Ann", issuedAt |-> 1])}

\* Bytes that are no JSON text, and a byte string of length 1 (whose
\* encoding has two characters; cut to one it has length 1 mod 4).
NotJson == <<7>>

ParseSecrets == {SessionSecrets[1], SessionSecrets[2]}

\* The cookie values: well-formed tokens, then every way of being malformed.
ParseValues ==
    LET tokens == {Signed(d, k) : d \in ParsePayloads, k \in ParseSecrets}
        datas == {base64UrlEncode(d) : d \in ParsePayloads}
        sigs == {base64UrlEncode(hmacSign(k, d)) : d \in ParsePayloads, k \in ParseSecrets}
    IN  tokens
        \cup {<<>>, <<46>>}
        \cup datas
        \cup {<<46>> \o g : g \in sigs}
        \cup {d \o <<46>> : d \in datas}
        \cup {d \o <<46>> \o g : d \in datas, g \in sigs}
        \cup {t \o <<46, 120>> : t \in tokens}
        \cup {<<33>> \o t : t \in tokens}
        \cup {t \o <<33>> : t \in tokens}
        \cup {<<65>> \o <<46>> \o g : g \in sigs}
        \cup {<<32>> \o t : t \in tokens}
        \cup {Signed(NotJson, k) : k \in ParseSecrets}

\* value: string | undefined | null
ParseInputs ==
    {[absent |-> TRUE, text |-> <<>>]} \cup {[absent |-> FALSE, text |-> v] : v \in ParseValues}

InitParse ==
    /\ \E s \in ParseSecrets \cup {Null, "", "tooshort"} :
           env = [BaseEnv EXCEPT !["SESSION_SECRET"] = s]
    /\ InitProc
    /\ InitSessIdle
    /\ InitAuthIdle
    /\ InitOrch

\* A call of parseSessionValue; `!value` is true of undefined and null as of
\* the empty string.
ParseCall(input) ==
    /\ pIn = <<>>
    /\ pIn' = <<input, keyPromise>>
    /\ LET r == parseSessionValue(input.text, env, keyPromise)
       IN  /\ pOut' = [isNull |-> r.isNull, payload |-> r.payload, threw |-> r.threw]
           /\ keyPromise' = r.keyPromise
    /\ UNCHANGED <<env, cachedConfig, cachedJwks, sessVars, bypassVars, verifyVars, gateVars,
                   accessorVars, orchVars,
                   memoVars>>

ParseReturn ==
    /\ pIn # <<>>
    /\ pIn' = <<>>
    /\ pOut' = [isNull |-> TRUE, payload |-> NoPayload, threw |-> FALSE]
    /\ UNCHANGED <<procVars, sessVars, bypassVars, verifyVars, gateVars,
                   accessorVars, orchVars,
                   memoVars>>

NextParse ==
    \/ \E input \in ParseInputs : ParseCall(input)
    \/ ParseReturn

SpecParse == InitParse /\ [][NextParse]_vars

\* The value of the call in pIn, its two parts and what they decode to.
pValue == pIn[1].text
pParts == SplitDot(pValue)
pData == base64UrlDecode(pParts.first)
pSignature == base64UrlDecode(pParts.second)
pMalformed ==
    \/ pIn[1].absent \/ Len(pValue) = 0
    \/ ~pParts.hasSecond \/ Len(pParts.first) = 0 \/ Len(pParts.second) = 0
\* The signature part is the HMAC of the decoded payload part under the
\* secret of the environment.
pVerifies ==
    /\ ~pMalformed
    /\ pData.ok /\ pSignature.ok
    /\ ~getSessionSecretThrows(env)
    /\ pSignature.bytes = hmacSign(env["SESSION_SECRET"], pData.bytes)

(***************************************************************************)
(* C11: parseSessionValue never throws and returns a payload only when the *)
(* token's signature verifies against the current secret over the encoded  *)
(* payload: for an absent or empty value, a value lacking the separator or *)
(* either part, a signature that does not verify, or a payload that fails  *)
(* decoding or JSON parsing, it returns null.                              *)
(***************************************************************************)
C11_ParseNullUnlessVerified ==
    pIn # <<>> =>
        /\ ~pOut.threw
        /\ ~pOut.isNull =>
              /\ pVerifies
              /\ JSONparse(pData.bytes).ok
              /\ pOut.payload = JSONparse(pData.bytes).payload
        /\ (pMalformed \/ ~pVerifies \/ ~pData.ok \/ ~JSONparse(pData.bytes).ok) => pOut.isNull

\* A token signed under another secret than the current one: null.
C11_WitnessOtherSecret ==
    /\ pIn # <<>>
    /\ env["SESSION_SECRET"] = SessionSecrets[1]
    /\ pValue = Signed(JSONstringify([sub |-> "a", email |-> "e@x", name |-> Null,
                                      issuedAt |-> 0]), SessionSecrets[2])
    /\ pOut.isNull /\ ~pOut.threw

\* A payload part that is no base64: atob throws inside the try block, null.
C11_WitnessUndecodable ==
    /\ pIn # <<>>
    /\ ~pMalformed /\ ~pData.ok
    /\ ~getSessionSecretThrows(env)
    /\ pOut.isNull /\ ~pOut.threw

\* A correctly signed payload that is no JSON text: null.
C11_WitnessNotJson ==
    /\ pIn # <<>>
    /\ pVerifies /\ ~JSONparse(pData.bytes).ok
    /\ pOut.isNull

\* A token under the current secret is accepted with its payload.
C11_WitnessAccepted ==
    /\ pIn # <<>>
    /\ pVerifies
    /\ ~pOut.isNull /\ pOut.payload.sub = "b" /\ pOut.payload.name = "Ann"

(***************************************************************************)
(* Access token verification and dev bypass (lib/auth/access).             *)
(***************************************************************************)
StartsWith(s, p) == Len(s) >= Len(p) /\ SubSeq(s, 1, Len(p)) = p
EndsWith(s, p) == Len(s) >= Len(p) /\ SubSeq(s, Len(s) - Len(p) + 1, Len(s)) = p

CertsSuffix == "/cdn-cgi/access/certs"
LoginSuffix == "/cdn-cgi/access/login"

\* new URL(s) throws a TypeError unless s is an absolute URL.
IsUrl(s) == (StartsWith(s, "https://") /\ Len(s) > 8) \/ (StartsWith(s, "http://") /\ Len(s) > 7)

NoConfig == [audience |-> Null, certsUrl |-> Null, algorithm |-> Null, loginUrl |-> Null]

\* resolveAccessConfig: [ok, config, cachedConfig]; ok = FALSE when it throws,
\* which leaves cachedConfig as it was.
resolveAccessConfig(e, cc) ==
    LET teamDomain == getEnv(e, "CF_ACCESS_TEAM_DOMAIN")
        sanitized == IF StartsWith(teamDomain, "http") THEN teamDomain
                     ELSE "https://" \o teamDomain
        stripped == IF EndsWith(sanitized, "/")
                    THEN SubSeq(sanitized, 1, Len(sanitized) - 1) ELSE sanitized
        certsUrl == IF getEnv(e, "CF_ACCESS_CERTS_URL") # Null
                    THEN getEnv(e, "CF_ACCESS_CERTS_URL")
                    ELSE stripped \o CertsSuffix
        loginUrl == IF getEnv(e, "CF_ACCESS_LOGIN_URL") # Null
                    THEN getEnv(e, "CF_ACCESS_LOGIN_URL")
                    ELSE IF EndsWith(certsUrl, CertsSuffix)
                    THEN SubSeq(certsUrl, 1, Len(certsUrl) - Len(CertsSuffix)) \o LoginSuffix
                    ELSE certsUrl
        config == [audience |-> getEnv(e, "CF_ACCESS_AUD"),
                   certsUrl |-> certsUrl,
                   algorithm |-> getEnv(e, "CF_ACCESS_JWT_ALG"),
                   loginUrl |-> loginUrl]
    IN  IF cc # <<>> THEN [ok |-> TRUE, config |-> cc[1], cachedConfig |-> cc]
        ELSE IF requireEnvThrows(e, "CF_ACCESS_AUD")
            THEN [ok |-> FALSE, config |-> NoConfig, cachedConfig |-> cc]
        ELSE IF getEnv(e, "CF_ACCESS_CERTS_URL") = Null /\ (teamDomain = Null \/ teamDomain = "")
            THEN [ok |-> FALSE, config |-> NoConfig, cachedConfig |-> cc]
        ELSE [ok |-> TRUE, config |-> config, cachedConfig |-> <<config>>]

\* getJwks: createRemoteJWKSet(new URL(certsUrl)) on first use, memoised.
getJwks(certsUrl, cj) ==
    IF cj # Null THEN [ok |-> TRUE, jwks |-> cj, cachedJwks |-> cj]
    ELSE IF ~IsUrl(certsUrl) THEN [ok |-> FALSE, jwks |-> Null, cachedJwks |-> cj]
    ELSE [ok |-> TRUE, jwks |-> certsUrl, cachedJwks |-> certsUrl]

\* The identity provider publishes its signing keys at this URL only.
IdpCertsUrl == "https://team.example" \o CertsSuffix

\* A bearer token: raw is "undefined", "empty" (""), "blank" (whitespace
\* only), "garbage" (no JWS) or "jwt"; the other fields are the JWT's signer,
\* protected header and claims.
NoClaims == [sub |-> "a", email |-> Null, identity_email |-> Null,
             name |-> Null, common_name |-> Null]
RawToken(raw) == [raw |-> raw, signedBy |-> Null, expired |-> FALSE, aud |-> Null,
                  alg |-> Null, claims |-> NoClaims]
Jwt(signedBy, expired, aud, alg, claims) ==
    [raw |-> "jwt", signedBy |-> signedBy, expired |-> expired, aud |-> aud,
     alg |-> alg, claims |-> claims]

\* jose's jwtVerify(token, jwks, {audience, algorithms}): Null when it
\* resolves, else the error it rejects with.  net is whether the key set can
\* be fetched from the network at this call.
jwtVerify(token, jwks, audience, algorithms, net) ==
    IF token.raw # "jwt" THEN "JWSInvalid"
    ELSE IF algorithms # Null /\ token.alg # algorithms THEN "JOSEAlgNotAllowed"
    ELSE IF ~net \/ jwks # IdpCertsUrl THEN "JWKSFetchFailed"
    ELSE IF token.signedBy # "idp" THEN "JWSSignatureVerificationFailed"
    ELSE IF token.aud # audience THEN "JWTClaimValidationFailed"
    ELSE IF token.expired THEN "JWTExpired"
    ELSE Null

Coalesce(x, y) == IF x # Null THEN x ELSE y

\* The try block once the configuration is resolved (rc) and the key set
\* built (jw), with the outcome of jwtVerify (err).
verifyTryResult(token, cj, rc, jw, err) ==
    LET pinned == rc.config.algorithm # Null /\ rc.config.algorithm # ""
        base == [type |-> "error", identity |-> NoIdentity, error |-> Null, raised |-> Null,
                 cachedConfig |-> rc.cachedConfig, cachedJwks |-> cj, fetched |-> FALSE]
    IN  IF ~rc.ok THEN [base EXCEPT !.raised = "MissingEnvironment"]
        ELSE IF ~jw.ok THEN [base EXCEPT !.raised = "InvalidURL"]
        ELSE IF err # Null
            THEN [base EXCEPT !.raised = err, !.cachedJwks = jw.cachedJwks,
                              !.fetched = err \notin {"JWSInvalid", "JOSEAlgNotAllowed"}]
        ELSE IF pinned /\ token.alg # rc.config.algorithm
            THEN [base EXCEPT !.error = "Unexpected Access token algorithm",
                              !.cachedJwks = jw.cachedJwks, !.fetched = TRUE]
        ELSE [base EXCEPT
                 !.type = "success",
                 !.identity = [sub |-> token.claims.sub,
                               email |-> Coalesce(token.claims.email, token.claims.identity_email),
                               name |-> Coalesce(token.claims.name, token.claims.common_name),
                               token |-> "jwt"],
                 !.cachedJwks = jw.cachedJwks, !.fetched = TRUE]

\* The try block from getJwks on, the configuration being resolved (rc).
verifyTryKeys(token, cj, net, rc, jw) ==
    verifyTryResult(token, cj, rc, jw,
        jwtVerify(token, jw.jwks, rc.config.audience,
                  IF rc.config.algorithm # Null /\ rc.config.algorithm # ""
                  THEN rc.config.algorithm ELSE Null, net))

verifyTryConfig(token, cj, net, rc) ==
    verifyTryKeys(token, cj, net, rc, getJwks(rc.config.certsUrl, cj))

\* The body of verifyAccessToken's try block: raised is the exception thrown
\* inside it (Null if none).
verifyTry(token, e, cc, cj, net) ==
    verifyTryConfig(token, cj, net, resolveAccessConfig(e, cc))

\* The mutant's result, from that of the try block (t).
verifyCatchConfigOutsideTry(token, cj, t) ==
    IF token.raw \in {"undefined", "empty", "blank"}
        THEN [type |-> "unauthorized", identity |-> NoIdentity, error |-> Null,
              raised |-> Null, cachedConfig |-> t.cachedConfig, cachedJwks |-> cj,
              fetched |-> FALSE]
    ELSE IF t.raised = "MissingEnvironment" THEN [t EXCEPT !.type = "throw"]
    ELSE IF t.raised # Null THEN [t EXCEPT !.error = t.raised, !.raised = Null]
    ELSE t

\* The empty check and the catch block of verifyAccessToken around the
\* result of its try block (t).
verifyCatch(token, cc, cj, t) ==
    IF token.raw \in {"undefined", "empty", "blank"}
        THEN [type |-> "unauthorized", identity |-> NoIdentity, error |-> Null,
              raised |-> Null, cachedConfig |-> cc, cachedJwks |-> cj, fetched |-> FALSE]
    ELSE IF t.raised # Null THEN [t EXCEPT !.error = t.raised, !.raised = Null]
    ELSE t

\* The mutant: the configuration is resolved before the try block.
verifyAccessTokenConfigOutsideTry(token, e, cc, cj, net) ==
    verifyCatchConfigOutsideTry(token, cj, verifyTry(token, e, cc, cj, net))

\* The mutant: jwtVerify is called without the audience option.
verifyAccessTokenNoAudience(token, e, cc, cj, net) ==
    verifyCatch(token, cc, cj,
        verifyTry([token EXCEPT !.aud = resolveAccessConfig(e, cc).config.audience],
                  e, cc, cj, net))

\* verifyAccessToken(token): type is "success", "error" or "unauthorized",
\* or "throw" for an exception that leaves the function; the catch block
\* turns whatever the try block raised into an error result.
verifyAccessToken(token, e, cc, cj, net) ==
    verifyCatch(token, cc, cj, verifyTry(token, e, cc, cj, net))

\* getAccessLoginUrl(): [ok, url, cachedConfig].
LoginUrlOf(rc) == [ok |-> rc.ok, url |-> rc.config.loginUrl, cachedConfig |-> rc.cachedConfig]
getAccessLoginUrl(e, cc) == LoginUrlOf(resolveAccessConfig(e, cc))

\* Request headers: headers.get(name) is Null for a header that is not sent.
DevHeaderNames == {"x-dev-auth", "x-dev-email", "x-dev-name", "x-dev-sub"}

\* The mutant: only the comparison is kept, without the two truthiness tests.
getDevBypassIdentityCompareOnly(headers, e) ==
    LET bypassToken == getEnv(e, "DEV_AUTH_BYPASS_TOKEN")
        provided == headers["x-dev-auth"]
        email == Coalesce(headers["x-dev-email"], "dev@example.com")
    IN  IF provided # bypassToken THEN NoDevIdentity
        ELSE [isNull |-> FALSE,
              sub |-> Coalesce(headers["x-dev-sub"], "dev-" \o email),
              email |-> email,
              name |-> Coalesce(headers["x-dev-name"], "Dev User")]

\* getDevBypassIdentity(headers)
getDevBypassIdentity(headers, e) ==
    LET bypassToken == getEnv(e, "DEV_AUTH_BYPASS_TOKEN")
        provided == headers["x-dev-auth"]
        email == Coalesce(headers["x-dev-email"], "dev@example.com")
    IN  IF bypassToken = Null \/ bypassToken = "" THEN NoDevIdentity
        ELSE IF provided = Null \/ provided = "" \/ provided # bypassToken THEN NoDevIdentity
        ELSE [isNull |-> FALSE,
              sub |-> Coalesce(headers["x-dev-sub"], "dev-" \o email),
              email |-> email,
              name |-> Coalesce(headers["x-dev-name"], "Dev User")]

(***************************************************************************)
(* SpecBypass: getDevBypassIdentity on every combination of bypass secret  *)
(* and x-dev-* headers.                                                    *)
(***************************************************************************)
BypassSecrets == {Null, "", "s3cret", "other"}
DevHeaderSets ==
    {[n \in DevHeaderNames |->
        CASE n = "x-dev-auth" -> a [] n = "x-dev-email" -> m
          [] n = "x-dev-name" -> nm [] n = "x-dev-sub" -> s] :
        a \in {Null, "", "s3cret", "other"}, m \in {Null, "", "d@x"},
        nm \in {Null, "Dan"}, s \in {Null, "", "dsub"}}

InitBypass ==
    /\ \E t \in BypassSecrets : env = [BaseEnv EXCEPT !["DEV_AUTH_BYPASS_TOKEN"] = t]
    /\ InitProc
    /\ InitSessIdle
    /\ InitAuthIdle
    /\ InitOrch

BypassCall(headers) ==
    /\ bIn = <<>>
    /\ bIn' = <<headers>>
    /\ bOut' = getDevBypassIdentity(headers, env)
    /\ UNCHANGED <<procVars, sessVars, parseVars, verifyVars, gateVars,
                   accessorVars, orchVars,
                   memoVars>>

BypassReturn ==
    /\ bIn # <<>>
    /\ bIn' = <<>>
    /\ bOut' = NoDevIdentity
    /\ UNCHANGED <<procVars, sessVars, parseVars, verifyVars, gateVars,
                   accessorVars, orchVars,
                   memoVars>>

NextBypass ==
    \/ \E headers \in DevHeaderSets : BypassCall(headers)
    \/ BypassReturn

SpecBypass == InitBypass /\ [][NextBypass]_vars

(***************************************************************************)
(* C6: getDevBypassIdentity returns null whenever no bypass secret is      *)
(* configured (unset or empty), whatever the x-dev-* headers; with a secret*)
(* configured it returns an identity only if x-dev-auth equals the secret. *)
(***************************************************************************)
C6_BypassNeedsSecret ==
    bIn # <<>> =>
        /\ (env["DEV_AUTH_BYPASS_TOKEN"] \in {Null, ""} => bOut.isNull)
        /\ (~bOut.isNull => /\ bIn[1]["x-dev-auth"] = env["DEV_AUTH_BYPASS_TOKEN"]
                            /\ bIn[1]["x-dev-auth"] \notin {Null, ""})

\* No secret configured, every x-dev-* header sent: null.
C6_WitnessNoSecret ==
    /\ bIn # <<>>
    /\ env["DEV_AUTH_BYPASS_TOKEN"] = Null
    /\ bIn[1]["x-dev-auth"] = "s3cret" /\ bIn[1]["x-dev-sub"] = "dsub"
    /\ bIn[1]["x-dev-email"] = "d@x" /\ bIn[1]["x-dev-name"] = "Dan"
    /\ bOut.isNull

\* The bypass does return identities: a matching header, defaults filled in.
C6_WitnessMatch ==
    /\ bIn # <<>>
    /\ env["DEV_AUTH_BYPASS_TOKEN"] = "s3cret"
    /\ bOut = [isNull |-> FALSE, sub |-> "dev-dev@example.com",
               email |-> "dev@example.com", name |-> "Dev User"]

(***************************************************************************)
(* SpecVerify: verifyAccessToken on tokens of every shape, under every     *)
(* configuration, with the key set reachable or not; the memoised          *)
(* configuration and key set persist from call to call.                    *)
(***************************************************************************)
VerifyEnvs ==
    {[BaseEnv EXCEPT !["CF_ACCESS_AUD"] = aud, !["CF_ACCESS_JWT_ALG"] = alg,
                     !["CF_ACCESS_CERTS_URL"] = certs, !["CF_ACCESS_TEAM_DOMAIN"] = team] :
        aud \in {Null, "aud1"}, alg \in {Null, "", "RS256"},
        certs \in {Null, IdpCertsUrl, "not a url"},
        team \in {Null, "team.example", "https://team.example/"}}

ClaimSets ==
    {[sub |-> "a", email |-> "e@x", identity_email |-> Null, name |-> "Ann", common_name |-> Null],
     [sub |-> "b", email |-> Null, identity_email |-> "e@x", name |-> Null, common_name |-> "Ann"],
     [sub |-> "b", email |-> Null, identity_email |-> Null, name |-> Null, common_name |-> Null]}

VerifyTokens ==
    {RawToken(r) : r \in {"undefined", "empty", "blank", "garbage"}}
    \cup {Jwt(s, x, aud, alg, c) : s \in {"idp", "attacker"}, x \in BOOLEAN,
              aud \in {Null, "aud1", "aud2"}, alg \in {"RS256", "ES256"}, c \in ClaimSets}

InitVerify ==
    /\ env \in VerifyEnvs
    /\ InitProc
    /\ InitSessIdle
    /\ InitAuthIdle
    /\ InitOrch

VerifyCall(token, net) ==
    /\ vIn = <<>>
    /\ vIn' = <<token, net, cachedConfig, cachedJwks>>
    /\ LET r == verifyAccessToken(token, env, cachedConfig, cachedJwks, net)
       IN  /\ vOut' = r
           /\ cachedConfig' = r.cachedConfig
           /\ cachedJwks' = r.cachedJwks
    /\ UNCHANGED <<env, keyPromise, sessVars, parseVars, bypassVars, gateVars,
                   accessorVars, orchVars,
                   memoVars>>

VerifyReturn ==
    /\ vIn # <<>>
    /\ vIn' = <<>>
    /\ vOut' = [type |-> "none", identity |-> NoIdentity, error |-> Null, raised |-> Null,
                cachedConfig |-> <<>>, cachedJwks |-> Null, fetched |-> FALSE]
    /\ UNCHANGED <<procVars, sessVars, parseVars, bypassVars, gateVars,
                   accessorVars, orchVars,
                   memoVars>>

NextVerify ==
    \/ \E token \in VerifyTokens, net \in BOOLEAN : VerifyCall(token, net)
    \/ VerifyReturn

SpecVerify == InitVerify /\ [][NextVerify]_vars

\* What the call in vIn found memoised, and the configuration it ran under.
vToken == vIn[1]
vNet == vIn[2]
vConfig == resolveAccessConfig(env, vIn[3])
vPinned == vConfig.ok /\ vConfig.config.algorithm \notin {Null, ""}
vEmptyToken == vToken.raw \in {"undefined", "empty", "blank"}

(***************************************************************************)
(* C8: verifyAccessToken never throws and returns exactly one of success,  *)
(* error, unauthorized: an empty, absent or whitespace-only token gives    *)
(* unauthorized without resolving the configuration or fetching keys; for  *)
(* a non-empty token every failure (configuration missing, key fetch       *)
(* failure, bad signature, expiry, algorithm mismatch) gives error         *)
(* carrying the cause.                                                     *)
(***************************************************************************)
C8_VerifyTotal ==
    vIn # <<>> =>
        /\ vOut.type \in {"success", "error", "unauthorized"}
        /\ vOut.raised = Null
        /\ vEmptyToken =>
              /\ vOut.type = "unauthorized"
              /\ cachedConfig = vIn[3] /\ cachedJwks = vIn[4] /\ ~vOut.fetched
        /\ ~vEmptyToken => vOut.type \in {"success", "error"}
        /\ (/\ ~vEmptyToken
            /\ \/ ~vConfig.ok
               \/ ~vNet
               \/ vToken.raw = "garbage"
               \/ vToken.signedBy # "idp"
               \/ vToken.expired
               \/ (vPinned /\ vToken.alg # vConfig.config.algorithm))
           => (vOut.type = "error" /\ vOut.error # Null)
        /\ vOut.type = "error" <=> vOut.error # Null

\* A non-empty token under a configuration that cannot be resolved.
C8_WitnessConfigMissing ==
    /\ vIn # <<>>
    /\ vToken.raw = "jwt" /\ vToken.signedBy = "idp"
    /\ env["CF_ACCESS_AUD"] = Null
    /\ vOut.type = "error" /\ vOut.error = "MissingEnvironment"

(***************************************************************************)
(* C9: for all valid identity tokens verifyAccessToken yields success with *)
(* identity.sub equal to the token's sub claim; for all tokens whose       *)
(* audience claim is wrong or missing, or (when an algorithm is            *)
(* configured) whose header algorithm differs from it, it yields error and *)
(* never success.                                                          *)
(***************************************************************************)
\* A valid identity token: signed by the identity provider, not expired, with
\* the configured audience and an allowed algorithm, checked against the
\* provider's key set (configuration resolved, key set fetched).
vValid ==
    /\ vToken.raw = "jwt" /\ vToken.signedBy = "idp" /\ ~vToken.expired
    /\ vConfig.ok /\ vToken.aud = vConfig.config.audience
    /\ (vPinned => vToken.alg = vConfig.config.algorithm)
    /\ vNet
    /\ (IF vIn[4] # Null THEN vIn[4] ELSE vConfig.config.certsUrl) = IdpCertsUrl

C9_ValidTokensOnly ==
    vIn # <<>> =>
        /\ vValid => (vOut.type = "success" /\ vOut.identity.sub = vToken.claims.sub)
        /\ (/\ vToken.raw = "jwt"
            /\ \/ ~vConfig.ok
               \/ vToken.aud # vConfig.config.audience
               \/ (vPinned /\ vToken.alg # vConfig.config.algorithm))
           => vOut.type = "error"
        /\ vOut.type = "success" => vValid

\* A valid token accepted under a pinned algorithm.
C9_WitnessValid ==
    /\ vIn # <<>>
    /\ vValid /\ vPinned
    /\ vOut.type = "success" /\ vOut.identity.sub = "b"
    /\ vOut.identity.email = "e@x"

\* A well-signed, unexpired token with the wrong audience is refused.
C9_WitnessWrongAudience ==
    /\ vIn # <<>>
    /\ vToken.raw = "jwt" /\ vToken.signedBy = "idp" /\ ~vToken.expired /\ vNet
    /\ vConfig.ok /\ vToken.aud = "aud2"
    /\ vOut.type = "error" /\ vOut.error = "JWTClaimValidationFailed"

(***************************************************************************)
(* The request gate (middleware.ts).                                       *)
(***************************************************************************)
PUBLIC_PATHS == {"/api/health", "/api/status"}
StaticPrefixes == {"/_next", "/favicon.ico", "/robots.txt", "/sitemap.xml",
                   "/manifest.webmanifest", "/app-icon.png", "/apple-touch-icon.png",
                   "/public"}

\* PUBLIC_PATHS.includes(path) || STATIC_PATH_REGEX.test(path): the regular
\* expression is anchored at the start only.
isPublicPath(path) ==
    path \in PUBLIC_PATHS \/ \E p \in StaticPrefixes : StartsWith(path, p)

\* runtimeEnv.isDev
isDev(e) == getEnv(e, "NODE_ENV") # "production"

\* value.toLowerCase() for the values DEV_AUTH_BYPASS_SESSION takes here.
toLowerCase(s) == CASE s = "TRUE" -> "true" [] s = "Yes" -> "yes" [] OTHER -> s

\* shouldBypassSession()
shouldBypassSession(e) ==
    LET bypass == getEnv(e, "DEV_AUTH_BYPASS_SESSION")
    IN  IF bypass = Null THEN FALSE ELSE toLowerCase(bypass) \in {"1", "true", "yes"}

UserHeaderNames == {"x-user-sub", "x-user-email", "x-user-name"}
NoUserHeaders == [n \in UserHeaderNames |-> Null]

\* if (value) requestHeaders.set(name, value)
SetIfTruthy(headers, name, value) ==
    IF value # Null /\ value # "" THEN [headers EXCEPT ![name] = value] ELSE headers

\* What the gate does with a request.  kind is "next" (passed on to the
\* handler), "redirect" or "throw" (an exception leaves the middleware);
\* verdict is the verifier's result type ("none" when it was not run); via
\* is "token", "dev" or "none"; headers are the x-user-* headers the handler
\* sees; cookie is the session cookie set on the response (<<>> for none).
GateOut(kind) ==
    [kind |-> kind, verdict |-> "none", via |-> "none", identity |-> NoIdentity,
     location |-> Null, redirect_url |-> Null, headers |-> NoUserHeaders,
     cookie |-> <<>>, ranBypass |-> FALSE]

\* buildLoginRedirect(request): throws when the configuration cannot be
\* resolved or the login URL is no URL.
RedirectTo(req, lu) ==
    IF ~lu.ok \/ ~IsUrl(lu.url)
    THEN [out |-> GateOut("throw"), cachedConfig |-> lu.cachedConfig]
    ELSE [out |-> [GateOut("redirect") EXCEPT !.location = lu.url,
                                              !.redirect_url = req.href],
          cachedConfig |-> lu.cachedConfig]
buildLoginRedirect(req, e, cc) == RedirectTo(req, getAccessLoginUrl(e, cc))

\* The mutant: x-user-sub is set only when the client sent none.
ForwardedHeadersKeepClient(req, identity) ==
    SetIfTruthy(
        SetIfTruthy(
            IF req.headers["x-user-sub"] # Null THEN [n \in UserHeaderNames |-> req.headers[n]]
            ELSE [[n \in UserHeaderNames |-> req.headers[n]] EXCEPT !["x-user-sub"] = identity.sub],
            "x-user-email", identity.email),
        "x-user-name", identity.name)

\* new Headers(request.headers) with x-user-sub set, and x-user-email and
\* x-user-name set when the identity has them.
ForwardedHeaders(req, identity) ==
    SetIfTruthy(
        SetIfTruthy(
            [[n \in UserHeaderNames |-> req.headers[n]] EXCEPT !["x-user-sub"] = identity.sub],
            "x-user-email", identity.email),
        "x-user-name", identity.name)

\* The mutant: the dev bypass is tried for an error result too.
BypassEligibleOnError(type, e) == type \in {"unauthorized", "error"} /\ isDev(e)

\* identityResult.type === "unauthorized" && runtimeEnv.isDev
BypassEligible(type, e) == type = "unauthorized" /\ isDev(e)

\* The mutant: a verification error is passed on to the handler.
ErrorOutcomePassThrough(req, e, cc) ==
    [out |-> [GateOut("next") EXCEPT !.headers = [n \in UserHeaderNames |-> req.headers[n]]],
     cachedConfig |-> cc]

\* if (identityResult.type === "error") { console.error(...); return buildLoginRedirect(request); }
ErrorOutcome(req, e, cc) == buildLoginRedirect(req, e, cc)

\* The token the gate hands to the verifier: accessHeader ?? accessCookie ?? "".
gateToken(req) ==
    IF req.accessHeader.raw # "undefined" THEN req.accessHeader
    ELSE IF req.accessCookie.raw # "undefined" THEN req.accessCookie
    ELSE RawToken("empty")

\* The mutant: a request that brings a session cookie is not issued another.
gateAcceptKeepSession(req, e, kp, v, tryDev, promoted, identity, session) ==
    LET passed == [GateOut("next") EXCEPT
                      !.via = IF promoted THEN "dev" ELSE "token",
                      !.identity = identity,
                      !.headers = ForwardedHeaders(req, identity),
                      !.verdict = v.type, !.ranBypass = tryDev]
    IN  IF shouldBypassSession(e) \/ req.sessionCookie # <<>>
            THEN [out |-> passed, keyPromise |-> kp,
                  cachedConfig |-> v.cachedConfig, cachedJwks |-> v.cachedJwks]
        ELSE IF ~session.ok
            THEN [out |-> [GateOut("throw") EXCEPT
                              !.via = passed.via, !.identity = identity,
                              !.verdict = v.type, !.ranBypass = tryDev],
                  keyPromise |-> session.keyPromise,
                  cachedConfig |-> v.cachedConfig, cachedJwks |-> v.cachedJwks]
        ELSE [out |-> [passed EXCEPT !.cookie = session.value],
              keyPromise |-> session.keyPromise,
              cachedConfig |-> v.cachedConfig, cachedJwks |-> v.cachedJwks]

\* The response to an authenticated request: the headers forwarded and the
\* session cookie (session is what createSessionValue gave).
gateAccept(req, e, kp, v, tryDev, promoted, identity, session) ==
    LET passed == [GateOut("next") EXCEPT
                      !.via = IF promoted THEN "dev" ELSE "token",
                      !.identity = identity,
                      !.headers = ForwardedHeaders(req, identity),
                      !.verdict = v.type, !.ranBypass = tryDev]
    IN  IF shouldBypassSession(e)
            THEN [out |-> passed, keyPromise |-> kp,
                  cachedConfig |-> v.cachedConfig, cachedJwks |-> v.cachedJwks]
        ELSE IF ~session.ok
            THEN [out |-> [GateOut("throw") EXCEPT
                              !.via = passed.via, !.identity = identity,
                              !.verdict = v.type, !.ranBypass = tryDev],
                  keyPromise |-> session.keyPromise,
                  cachedConfig |-> v.cachedConfig, cachedJwks |-> v.cachedJwks]
        ELSE [out |-> [passed EXCEPT !.cookie = session.value],
              keyPromise |-> session.keyPromise,
              cachedConfig |-> v.cachedConfig, cachedJwks |-> v.cachedJwks]

\* The response to a refused request (redirect is what buildLoginRedirect gave).
gateRefuse(kp, v, tryDev, redirect) ==
    [out |-> [redirect.out EXCEPT !.verdict = v.type, !.ranBypass = tryDev],
     keyPromise |-> kp,
     cachedConfig |-> redirect.cachedConfig, cachedJwks |-> v.cachedJwks]

\* middleware from the dev bypass on: v is the verifier's result, dev the
\* result of getDevBypassIdentity.
gateDecide(req, e, kp, now, v, dev) ==
    LET tryDev == BypassEligible(v.type, e)
        promoted == tryDev /\ ~dev.isNull
        type == IF promoted THEN "success" ELSE v.type
        identity == IF promoted
                    THEN [sub |-> dev.sub, email |-> dev.email, name |-> dev.name, token |-> "dev"]
                    ELSE v.identity
    IN  IF type = "unauthorized"
            THEN gateRefuse(kp, v, tryDev, buildLoginRedirect(req, e, v.cachedConfig))
        ELSE IF type = "error"
            THEN gateRefuse(kp, v, tryDev, ErrorOutcome(req, e, v.cachedConfig))
        ELSE IF type # "success"
            THEN [out |-> [GateOut("throw") EXCEPT !.verdict = v.type, !.ranBypass = tryDev],
                  keyPromise |-> kp,
                  cachedConfig |-> v.cachedConfig, cachedJwks |-> v.cachedJwks]
        ELSE gateAccept(req, e, kp, v, tryDev, promoted, identity,
                        createSessionValue(identity, now, e, kp))

\* The mutant: the OPTIONS check is missing, a preflight is authenticated.
middlewareNoPreflight(req, e, kp, cc, cj, net, now) ==
    IF isPublicPath(req.pathname)
        THEN [out |-> [GateOut("next") EXCEPT
                          !.headers = [n \in UserHeaderNames |-> req.headers[n]]],
              keyPromise |-> kp, cachedConfig |-> cc, cachedJwks |-> cj]
    ELSE gateDecide(req, e, kp, now,
                    verifyAccessToken(gateToken(req), e, cc, cj, net),
                    getDevBypassIdentity(req.headers, e))

\* middleware(request): [out, keyPromise, cachedConfig, cachedJwks].
middleware(req, e, kp, cc, cj, net, now) ==
    IF req.method = "OPTIONS" \/ isPublicPath(req.pathname)
        THEN [out |-> [GateOut("next") EXCEPT
                          !.headers = [n \in UserHeaderNames |-> req.headers[n]]],
              keyPromise |-> kp, cachedConfig |-> cc, cachedJwks |-> cj]
    ELSE gateDecide(req, e, kp, now,
                    verifyAccessToken(gateToken(req), e, cc, cj, net),
                    getDevBypassIdentity(req.headers, e))

(***************************************************************************)
(* SpecGate: the gate handles requests one after the other in one process; *)
(* the memoised configuration, key set and signing key persist.            *)
(***************************************************************************)
GateConfigs ==
    {[aud |-> "aud1", certs |-> Null, team |-> "team.example", login |-> Null],
     [aud |-> Null, certs |-> Null, team |-> "team.example", login |-> Null],
     [aud |-> "aud1", certs |-> Null, team |-> Null, login |-> Null],
     [aud |-> "aud1", certs |-> "https://keys.example/jwks", team |-> Null, login |-> Null],
     [aud |-> "aud1", certs |-> Null, team |-> "team.example", login |-> "not a url"],
     [aud |-> "aud1", certs |-> IdpCertsUrl, team |-> Null, login |-> "https://login.example/"]}

\* DEV_AUTH_BYPASS_SESSION and SESSION_SECRET: a cookie is issued, cannot be
\* signed, or is not issued.
GateSessions ==
    {[bypass |-> Null, secret |-> SessionSecrets[1]],
     [bypass |-> Null, secret |-> Null],
     [bypass |-> "TRUE", secret |-> Null]}

GateEnvs ==
    {[BaseEnv EXCEPT !["CF_ACCESS_AUD"] = c.aud, !["CF_ACCESS_CERTS_URL"] = c.certs,
                     !["CF_ACCESS_TEAM_DOMAIN"] = c.team, !["CF_ACCESS_LOGIN_URL"] = c.login,
                     !["NODE_ENV"] = node, !["DEV_AUTH_BYPASS_TOKEN"] = bt,
                     !["DEV_AUTH_BYPASS_SESSION"] = ss.bypass,
                     !["SESSION_SECRET"] = ss.secret] :
        c \in GateConfigs, node \in {Null, "production"}, bt \in {Null, "s3cret"},
        ss \in GateSessions}

GateTokens ==
    {RawToken("undefined"), RawToken("empty"), RawToken("blank"),
     Jwt("idp", FALSE, "aud1", "RS256",
         [sub |-> "a", email |-> "e@x", identity_email |-> Null, name |-> "Ann", common_name |-> Null]),
     Jwt("attacker", FALSE, "aud1", "RS256",
         [sub |-> "a", email |-> "e@x", identity_email |-> Null, name |-> "Ann", common_name |-> Null])}

GateCookies ==
    {RawToken("undefined"),
     Jwt("idp", FALSE, "aud1", "RS256",
         [sub |-> "b", email |-> Null, identity_email |-> Null, name |-> Null, common_name |-> Null])}

\* Requests the gate lets through unexamined: OPTIONS, public, static.
GateOpenTargets ==
    {[method |-> "OPTIONS", pathname |-> "/api/generate/script"],
     [method |-> "GET", pathname |-> "/api/health"],
     [method |-> "GET", pathname |-> "/_next/static/chunk.js"]}

\* The session cookie a request brings: none, or the one the gate issued
\* for subject a at time 0 under the first secret.
GateSessionCookies ==
    {<<>>,
     createSessionValue([sub |-> "a", email |-> "e@x", name |-> "Ann"], 0,
                        [BaseEnv EXCEPT !["SESSION_SECRET"] = SessionSecrets[1]], Null).value}

GateRequest(t, h, c, sc, da, ds, us, ue, un) ==
    [method |-> t.method, pathname |-> t.pathname,
     href |-> "https://app.example" \o t.pathname,
     accessHeader |-> h, accessCookie |-> c, sessionCookie |-> sc,
     headers |-> [n \in DevHeaderNames \cup UserHeaderNames |->
                     CASE n = "x-dev-auth" -> da [] n = "x-dev-sub" -> ds
                       [] n = "x-user-sub" -> us [] n = "x-user-email" -> ue
                       [] n = "x-user-name" -> un [] OTHER -> Null]]

GateRequests ==
    {GateRequest([method |-> "POST", pathname |-> "/api/generate/script"], h, c, sc, da, ds, us,
                 ue, un) :
        h \in GateTokens, c \in GateCookies, sc \in GateSessionCookies,
        da \in {Null, "s3cret", "other"},
        ds \in {Null, "dsub"}, us \in {Null, "a"}, ue \in {Null, "m@x"}, un \in {Null, "Mal"}}
    \cup {GateRequest(t, h, RawToken("undefined"), sc, da, Null, us, Null, Null) :
        t \in GateOpenTargets, h \in GateTokens, sc \in GateSessionCookies,
        da \in {Null, "s3cret"}, us \in {Null, "a"}}

InitGate ==
    /\ env \in GateEnvs
    /\ InitProc
    /\ InitSessIdle
    /\ InitAuthIdle
    /\ InitOrch

GateHandle(req) ==
    /\ gReq = <<>>
    /\ gReq' = <<req, cachedConfig>>
    /\ LET r == middleware(req, env, keyPromise, cachedConfig, cachedJwks, TRUE, 0)
       IN  /\ gOut' = <<r.out>>
           /\ keyPromise' = r.keyPromise
           /\ cachedConfig' = r.cachedConfig
           /\ cachedJwks' = r.cachedJwks
    /\ UNCHANGED <<env, sessVars, parseVars, bypassVars, verifyVars,
                   accessorVars, orchVars,
                   memoVars>>

GateReturn ==
    /\ gReq # <<>>
    /\ gReq' = <<>>
    /\ gOut' = <<>>
    /\ UNCHANGED <<procVars, sessVars, parseVars, bypassVars, verifyVars,
                   accessorVars, orchVars,
                   memoVars>>

NextGate ==
    \/ \E req \in GateRequests : GateHandle(req)
    \/ GateReturn

SpecGate == InitGate /\ [][NextGate]_vars

gRequest == gReq[1]
gResult == gOut[1]
gProtected == gRequest.method # "OPTIONS" /\ ~isPublicPath(gRequest.pathname)
\* The login URL as the gate resolves it for this request.
gLogin == getAccessLoginUrl(env, gReq[2])
gLoginOk == gLogin.ok /\ IsUrl(gLogin.url)
\* The token the gate reads from the request.
gToken == gateToken(gRequest)
gDevMatch == /\ env["DEV_AUTH_BYPASS_TOKEN"] \notin {Null, ""}
             /\ gRequest.headers["x-dev-auth"] = env["DEV_AUTH_BYPASS_TOKEN"]
\* The verifier result is unauthorized and no dev bypass matched, or error.
gRefused ==
    \/ gResult.verdict = "error"
    \/ gResult.verdict = "unauthorized" /\ gResult.via # "dev"

(***************************************************************************)
(* C4 as stated: for every request that is neither OPTIONS nor to a public *)
(* or static path, if the verifier result is unauthorized (and no dev      *)
(* bypass matched) or error, the gate returns a redirect to the identity   *)
(* provider's login URL carrying the original URL as redirect_url, the     *)
(* request is never passed on to a handler, and both outcomes give the     *)
(* same response.                                                          *)
(***************************************************************************)
C4_RefusedIsRedirected ==
    (gReq # <<>> /\ gProtected /\ gRefused) =>
        gResult.kind = "redirect"

(***************************************************************************)
(* C4 as amended: such a request is never passed on to a handler; when     *)
(* the identity-provider configuration resolves and its login URL is a     *)
(* URL, the gate returns a redirect to that login URL with the original    *)
(* URL as redirect_url and nothing else (the same response for             *)
(* unauthorized and error); otherwise the gate throws.                     *)
(***************************************************************************)
C4_RefusedNeverPassedOn ==
    (gReq # <<>> /\ gProtected /\ gRefused) =>
        /\ gResult.kind # "next"
        /\ gLoginOk =>
              [gResult EXCEPT !.verdict = "none", !.ranBypass = FALSE]
                  = [GateOut("redirect") EXCEPT !.location = gLogin.url,
                                                !.redirect_url = gRequest.href]
        /\ ~gLoginOk => gResult.kind = "throw"

\* A token that fails verification, redirected to the derived login URL.
C4_WitnessErrorRedirect ==
    /\ gReq # <<>> /\ gProtected
    /\ gResult.verdict = "error"
    /\ gResult.kind = "redirect"
    /\ gResult.location = "https://team.example" \o LoginSuffix
    /\ gResult.redirect_url = "https://app.example/api/generate/script"

\* No token, no bypass: redirected too.
C4_WitnessUnauthorizedRedirect ==
    /\ gReq # <<>> /\ gProtected
    /\ gResult.verdict = "unauthorized"
    /\ gResult.kind = "redirect"

(***************************************************************************)
(* C5: whenever the gate passes an authenticated (non-OPTIONS, non-public) *)
(* request on to a handler, the x-user-sub header the handler sees is the  *)
(* subject of the identity produced by the token verifier or the dev       *)
(* bypass, whatever x-user-sub the client supplied.                        *)
(***************************************************************************)
C5_SubjectHeaderFromIdentity ==
    (gReq # <<>> /\ gProtected /\ gResult.kind = "next") =>
        /\ gResult.via \in {"token", "dev"}
        /\ gResult.via = "token" =>
              gResult.headers["x-user-sub"] = gToken.claims.sub
        /\ gResult.via = "dev" =>
              gResult.headers["x-user-sub"]
                  = getDevBypassIdentity(gRequest.headers, env).sub

\* The client sends x-user-sub: a with a token whose subject is b.
C5_WitnessSpoofOverridden ==
    /\ gReq # <<>> /\ gProtected /\ gResult.kind = "next"
    /\ gRequest.headers["x-user-sub"] = "a"
    /\ gResult.via = "token" /\ gToken.claims.sub = "b"
    /\ gResult.headers["x-user-sub"] = "b"

(***************************************************************************)
(* C7 as stated: the gate promotes a request to success through the dev    *)
(* bypass only when the verifier result is unauthorized AND the runtime is *)
(* a development runtime; in a production runtime no request is            *)
(* authenticated from x-dev-* headers, and a request carrying a non-empty  *)
(* token that fails verification is redirected even if it carries a        *)
(* matching x-dev-auth header.                                             *)
(***************************************************************************)
C7_BypassOnlyUnauthorizedDev ==
    (gReq # <<>> /\ gProtected) =>
        /\ gResult.via = "dev" => (gResult.verdict = "unauthorized" /\ isDev(env) /\ gDevMatch)
        /\ ~isDev(env) => (gResult.via # "dev" /\ ~gResult.ranBypass)
        /\ (gResult.verdict = "error" /\ gDevMatch) => gResult.kind = "redirect"

(***************************************************************************)
(* C7 as amended: the same, except that the request carrying a non-empty   *)
(* token that fails verification is never authenticated: it is redirected  *)
(* when the login URL can be resolved, and otherwise the gate throws.      *)
(***************************************************************************)
C7_BypassOnlyUnauthorizedDevOrThrow ==
    (gReq # <<>> /\ gProtected) =>
        /\ gResult.via = "dev" => (gResult.verdict = "unauthorized" /\ isDev(env) /\ gDevMatch)
        /\ ~isDev(env) => (gResult.via # "dev" /\ ~gResult.ranBypass)
        /\ (gResult.verdict = "error" /\ gDevMatch) =>
              /\ gResult.via = "none" /\ gResult.kind # "next"
              /\ gLoginOk => gResult.kind = "redirect"
              /\ ~gLoginOk => gResult.kind = "throw"

\* A failing token with a matching x-dev-auth header, in development.
C7_WitnessErrorNotBypassed ==
    /\ gReq # <<>> /\ gProtected
    /\ isDev(env) /\ gDevMatch
    /\ gToken.raw = "jwt" /\ gResult.verdict = "error"
    /\ gResult.kind = "redirect"

\* The bypass at work: no token, development, matching header.
C7_WitnessBypassed ==
    /\ gReq # <<>> /\ gProtected
    /\ gResult.via = "dev" /\ gResult.kind = "next"
    /\ gResult.identity.token = "dev"

(***************************************************************************)
(* The generation orchestrators: POST /api/generate/script, /image, /tts   *)
(* over the D1 tables, the KV cache and the R2 bucket.                     *)
(***************************************************************************)
\* crypto.randomUUID(): an identifier no row of the table has yet.
randomUUID(prefix, rows) == prefix \o ToString(Cardinality({r.id : r \in rows}) + 1)

Response(status, error) == [NoResponse EXCEPT !.status = status, !.error = error]
unauthorized == Response(401, "Unauthorized")
badRequest(message) == Response(400, message)
forbidden(message) == Response(403, message)

Truthy(v) == v # Null /\ v # ""

\* The mutant: the body is read and checked first, the subject last.
validateBodyFirst(route, sub, payload) ==
    IF ~payload.json THEN badRequest("Invalid JSON body")
    ELSE IF route = "script" /\ ~Truthy(payload.topic) THEN badRequest("'topic' is required")
    ELSE IF route # "script" /\ ~Truthy(payload.projectId)
        THEN badRequest("'projectId' is required")
    ELSE IF route = "image" /\ ~Truthy(payload.prompt) THEN badRequest("'prompt' is required")
    ELSE IF route = "tts" /\ Len(payload.sections) = 0
        THEN badRequest("'sections' must be a non-empty array")
    ELSE IF ~Truthy(sub) THEN unauthorized
    ELSE NoResponse

\* The checks before the first await on the database (script, image, tts).
validate(route, sub, payload) ==
    IF ~Truthy(sub) THEN unauthorized
    ELSE IF ~payload.json THEN badRequest("Invalid JSON body")
    ELSE IF route = "script"
        THEN IF ~Truthy(payload.topic) THEN badRequest("'topic' is required") ELSE NoResponse
    ELSE IF ~Truthy(payload.projectId) THEN badRequest("'projectId' is required")
    ELSE IF route = "image"
        THEN IF ~Truthy(payload.prompt) THEN badRequest("'prompt' is required") ELSE NoResponse
    ELSE IF Len(payload.sections) = 0
        THEN badRequest("'sections' must be a non-empty array")
    ELSE NoResponse

\* A member of the body that the JSON text does not have (undefined), as
\* against one it has with the value null.
Absent == "undefined"

\* payload.x ?? null
orNull(v) == IF v \in {Absent, Null} THEN Null ELSE v

\* The mutant: the project named by the request is hashed too.
cacheKeyPerProject(payload) ==
    <<"script", payload.topic, orNull(payload.persona), orNull(payload.lengthMinutes),
      orNull(payload.language), payload.projectId>>

\* `script:${sha256(JSON.stringify({topic, persona ?? null, length ?? null,
\* language ?? null}))}`; JSON.stringify is injective on these four fields
\* and sha256 is taken to be collision-free, so the key is the four fields.
cacheKey(payload) ==
    <<"script", payload.topic, orNull(payload.persona), orNull(payload.lengthMinutes),
      orNull(payload.language)>>

\* The mutant: no entry is ever found under a key, so that a put adds an
\* entry beside the one there is.
cacheGetNothing(cache, key) == {}

\* env.CACHE.get(key, { type: "json" }): the entries stored under the key.
cacheGet(cache, key) == {c \in cache : c.key = key}

\* getProjectById(projectId): the rows SELECTed (at most one).
getProjectById(rows, projectId) == {p \in rows : p.id = projectId}

\* ensureUser's SELECT ... WHERE access_sub = ?
userBySub(rows, sub) == {u \in rows : u.access_sub = sub}

\* ensureUser's UPDATE users SET email = coalesce(?, email), name =
\* coalesce(?, name) WHERE id = ?, bound to params.email ?? null and
\* params.name ?? null: the empty string is not null.
ensureUserUpdate(rows, id, email, name) ==
    {IF u.id = id
     THEN [u EXCEPT !.email = Coalesce(email, @), !.name = Coalesce(name, @)]
     ELSE u : u \in rows}

\* ensureUser's INSERT INTO users (id, access_sub, email, name, created_at)
ensureUserInsert(rows, id, sub, email, name) ==
    rows \cup {[id |-> id, access_sub |-> sub, email |-> email, name |-> name]}

\* The mutant: the SELECT without WHERE project_id = ?, the highest version
\* of any project.
lastVersionOfAnyProject(rows, projectId) ==
    LET vs == {v.version : v \in rows}
    IN  IF vs = {} THEN 0 ELSE CHOOSE m \in vs : \A x \in vs : x <= m

\* The mutant: (lastVersion?.version ?? 1), a project without versions
\* counted as having one.
lastVersionOfDefaultOne(rows, projectId) ==
    LET vs == {v.version : v \in {r \in rows : r.project_id = projectId}}
    IN  IF vs = {} THEN 1 ELSE CHOOSE m \in vs : \A x \in vs : x <= m

\* insertProjectVersion's SELECT version ... ORDER BY version DESC LIMIT 1,
\* then (lastVersion?.version ?? 0).
lastVersionOf(rows, projectId) ==
    LET vs == {v.version : v \in {r \in rows : r.project_id = projectId}}
    IN  IF vs = {} THEN 0 ELSE CHOOSE m \in vs : \A x \in vs : x <= m

\* The mutant: the unique index on (project_id, version) is missing.
versionTakenNever(rows, projectId, version) == FALSE

\* CREATE UNIQUE INDEX idx_project_versions_unique ON project_versions
\* (project_id, version): the INSERT of a pair that exists is rejected.
versionTaken(rows, projectId, version) ==
    \E v \in rows : v.project_id = projectId /\ v.version = version

\* What the script route passes to insertProjectVersion beside outline,
\* script and seo: generatedWith: { provider: "gemini", model: geminiModel }.
\* The accessor's parameter is called generatedMetadata; the call passes
\* none of that name.
ScriptVersionParams == [generatedWith |-> "gemini/model", generatedMetadata |-> Absent]

\* params.generatedMetadata ? JSON.stringify(params.generatedMetadata) : null
generatedWithColumn(params) ==
    IF params.generatedMetadata \notin {Absent, Null, ""} THEN params.generatedMetadata ELSE Null

\* The mutant: the new version takes the place of the project's earlier ones.
projectVersionReplace(rows, projectId, version, script) ==
    {r \in rows : r.project_id # projectId}
        \cup {[id |-> randomUUID("v", rows), project_id |-> projectId,
                version |-> version, script |-> script, generated_with |-> generatedWithColumn(ScriptVersionParams),
                ord |-> Cardinality(rows) + 1]}

\* insertProjectVersion's INSERT INTO project_versions.  The callers pass
\* generatedWith, the accessor reads params.generatedMetadata: the column is
\* null.  ord is history: the row is the ord-th inserted into the table.
projectVersionInsert(rows, projectId, version, script) ==
    rows \cup {[id |-> randomUUID("v", rows), project_id |-> projectId,
                version |-> version, script |-> script, generated_with |-> generatedWithColumn(ScriptVersionParams),
                ord |-> Cardinality(rows) + 1]}

\* The mutant: the status passed is ignored, the row is inserted queued.
insertGenerationJobQueued(rows, id, projectId, jobType, status, payload, n) ==
    rows \cup {[id |-> id, project_id |-> projectId, job_type |-> jobType,
                status |-> "queued", error |-> Null, payload |-> payload,
                creator |-> n, updates |-> <<>>]}

\* insertGenerationJob's INSERT INTO generation_jobs (id, project_id,
\* job_type, status, payload, ...) bound to params.status ?? "queued";
\* creator is history: the request that inserted the row.
insertGenerationJob(rows, id, projectId, jobType, status, payload, n) ==
    rows \cup {[id |-> id, project_id |-> projectId, job_type |-> jobType,
                status |-> Coalesce(status, "queued"), error |-> Null, payload |-> payload,
                creator |-> n, updates |-> <<>>]}

\* The mutant: the UPDATE sets succeeded whatever status is passed.
updateGenerationJobStatusSucceeded(rows, jobId, status, error, n) ==
    {IF j.id = jobId
     THEN [j EXCEPT !.status = "succeeded", !.error = error,
                    !.updates = Append(@, <<n, "succeeded">>)]
     ELSE j : j \in rows}

\* updateGenerationJobStatus({ jobId, status, error }); updates is history:
\* who set which status.
updateGenerationJobStatus(rows, jobId, status, error, n) ==
    {IF j.id = jobId
     THEN [j EXCEPT !.status = status, !.error = error, !.updates = Append(@, <<n, status>>)]
     ELSE j : j \in rows}

FailureMessage(route) ==
    CASE route = "script" -> "Failed to generate script"
      [] route = "image" -> "Failed to generate image"
      [] OTHER -> "Failed to generate audio"

H(s) == handlers[s]
\* The handler of slot s ends with a response.
Respond(s, h, response) ==
    handlers' = [handlers EXCEPT ![s] = [h EXCEPT !.pc = "done", !.response = response]]
\* The handler of slot s ends with an exception.
Throw(s, h) ==
    handlers' = [handlers EXCEPT ![s] = [h EXCEPT !.pc = "done", !.threw = TRUE]]
\* The handler of slot s goes on to its next await.
Goto(s, h, pc) ==
    handlers' = [handlers EXCEPT ![s] = [h EXCEPT !.pc = pc]]
\* An exception inside the try block: control enters the catch block.
Caught(s, h, cause) ==
    handlers' = [handlers EXCEPT ![s] = [h EXCEPT !.pc = "catch", !.cause = cause]]

\* A script request that has not yet read the cache.
BeforeCacheRead(h) ==
    /\ h.route = "script"
    /\ h.pc \in {"ensureUserSelect", "ensureUserUpdate", "ensureUserInsert",
                 "resolveProject", "cacheGet"}

dbVars == <<users, projects, project_versions, assets, generation_jobs>>

\* request.headers.get("x-user-sub") of a request without the header, and
\* of one whose header is empty.
Anonymous == [sub |-> Null, email |-> Null, name |-> Null]
EmptySubject == [sub |-> "", email |-> "a@x", name |-> Null]
Callers == {[sub |-> "a", email |-> "a@x", name |-> Null],
            [sub |-> "b", email |-> Null, name |-> Null]}

\* The section lists of tts requests, up to MaxSections sections.
SectionLists ==
    {l \in {<<>>, <<"hi">>, <<"", "hi">>, <<"hi", "">>, <<"hi", "hi">>, <<"hi", "hi", "">>,
             <<"hi", "hi", "hi">>} : Len(l) <= MaxSections}

\* The bodies clients send.  A projectId is the id of a project that
\* exists or "nope", the id of none.
ScriptBodies ==
    {[NoPayloadBody EXCEPT !.json = FALSE],
     NoPayloadBody,
     [NoPayloadBody EXCEPT !.topic = "t1"],
     [NoPayloadBody EXCEPT !.topic = "t1", !.regenerate = TRUE],
     [NoPayloadBody EXCEPT !.topic = "t1", !.persona = "p"],
     [NoPayloadBody EXCEPT !.topic = "t1", !.persona = Absent],
     [NoPayloadBody EXCEPT !.topic = "t1", !.projectId = "nope"]}
    \cup {[NoPayloadBody EXCEPT !.topic = "t1", !.projectId = p.id, !.regenerate = r] :
              p \in projects, r \in BOOLEAN}

ImageBodies ==
    {[NoPayloadBody EXCEPT !.prompt = "cat"],
     [NoPayloadBody EXCEPT !.prompt = "cat", !.projectId = "nope"]}
    \cup {[NoPayloadBody EXCEPT !.prompt = q, !.projectId = p.id] :
              q \in {Null, "cat"}, p \in projects}

TtsBodies ==
    {[NoPayloadBody EXCEPT !.sections = <<"hi">>, !.projectId = "nope"]}
    \cup {[NoPayloadBody EXCEPT !.sections = l, !.projectId = p.id] :
              l \in SectionLists, p \in projects}

\* The bodies of the requests without a subject: not JSON, JSON without
\* the required fields, and a body that passes the route's validation.
AnonymousBodies(route) ==
    {[NoPayloadBody EXCEPT !.json = FALSE],
     NoPayloadBody,
     CASE route = "script" -> [NoPayloadBody EXCEPT !.topic = "t1"]
       [] route = "image" -> [NoPayloadBody EXCEPT !.prompt = "cat", !.projectId = "nope"]
       [] OTHER -> [NoPayloadBody EXCEPT !.sections = <<"hi">>, !.projectId = "nope"]}

Requests ==
    {<<"script", c, b>> : c \in Callers, b \in ScriptBodies}
    \cup {<<"image", c, b>> : c \in Callers, b \in ImageBodies}
    \cup {<<"tts", c, b>> : c \in Callers, b \in TtsBodies}
    \cup UNION {{<<r, c, b>> : c \in {Anonymous, EmptySubject}, b \in AnonymousBodies(r)} :
                     r \in {"script", "image", "tts"}}

\* The request is received: headers, body and validation, up to
\* `await ensureUser`.
Receive(s, route, caller, payload) ==
    /\ started' = started + 1
    /\ LET prior == cacheGet(CACHE, cacheKey(payload))
           h == [IdleHandler EXCEPT
                    !.n = started + 1, !.route = route, !.sub = caller.sub,
                    !.email = caller.email, !.name = caller.name, !.payload = payload,
                    !.fresh = userBySub(users, caller.sub) = {},
                    !.bodyRead = Truthy(caller.sub),
                    !.first = IF route = "script" /\ prior # {}
                              THEN (CHOOSE c \in prior : TRUE).writer ELSE 0,
                    !.firstValue = IF route = "script" /\ prior # {}
                                   THEN (CHOOSE c \in prior : TRUE).value ELSE Null]
           v == validate(route, caller.sub, payload)
       IN  IF v # NoResponse THEN Respond(s, h, v) ELSE Goto(s, h, "ensureUserSelect")
    /\ UNCHANGED <<dbVars, CACHE, MEDIA_BUCKET, generated>>

\* A request arrives and takes the first free slot.
Start(s) ==
    /\ H(s).pc = "idle"
    /\ \A t \in Slots : t < s => H(t).pc # "idle"
    /\ started < MaxRequests
    /\ \E r \in Requests : Receive(s, r[1], r[2], r[3])

\* ensureUser: SELECT ... FROM users WHERE access_sub = ?
EnsureUserSelect(s) ==
    /\ H(s).pc = "ensureUserSelect"
    /\ LET existing == userBySub(users, H(s).sub)
       IN  IF existing # {}
           THEN LET u == CHOOSE u \in existing : TRUE
                IN  Goto(s, [H(s) EXCEPT !.user = u.id],
                         IF Truthy(H(s).email) \/ Truthy(H(s).name)
                         THEN "ensureUserUpdate" ELSE "resolveProject")
           ELSE Goto(s, H(s), "ensureUserInsert")
    /\ UNCHANGED <<dbVars, CACHE, MEDIA_BUCKET, started, generated>>

\* ensureUser: UPDATE users SET email = coalesce(?, email), ... WHERE id = ?
EnsureUserUpdate(s) ==
    /\ H(s).pc = "ensureUserUpdate"
    /\ users' = ensureUserUpdate(users, H(s).user, H(s).email, H(s).name)
    /\ Goto(s, [H(s) EXCEPT !.made = @ \cup {"userUpdate"}], "resolveProject")
    /\ UNCHANGED <<projects, project_versions, assets, generation_jobs, CACHE, MEDIA_BUCKET,
                   started, generated>>

\* The mutant: access_sub is not UNIQUE, the INSERT is never rejected.
EnsureUserInsertUnchecked(s) ==
    /\ H(s).pc = "ensureUserInsert"
    /\ LET id == randomUUID("u", users)
       IN  /\ users' = ensureUserInsert(users, id, H(s).sub, H(s).email, H(s).name)
           /\ Goto(s, [H(s) EXCEPT !.user = id, !.made = @ \cup {"user"}], "resolveProject")
    /\ UNCHANGED <<projects, project_versions, assets, generation_jobs, CACHE, MEDIA_BUCKET,
                   started, generated>>

\* ensureUser: INSERT INTO users ..., then SELECT ... WHERE id = ?; access_sub
\* is UNIQUE (migrations/0000_init.sql), so the INSERT of a subject another
\* request has inserted meanwhile is rejected and the handler throws.
EnsureUserInsert(s) ==
    /\ H(s).pc = "ensureUserInsert"
    /\ IF userBySub(users, H(s).sub) # {}
       THEN /\ Throw(s, H(s))
            /\ UNCHANGED users
       ELSE LET id == randomUUID("u", users)
            IN  /\ users' = ensureUserInsert(users, id, H(s).sub, H(s).email, H(s).name)
                /\ Goto(s, [H(s) EXCEPT !.user = id, !.made = @ \cup {"user"}], "resolveProject")
    /\ UNCHANGED <<projects, project_versions, assets, generation_jobs, CACHE, MEDIA_BUCKET,
                   started, generated>>

\* The mutant: the owner of the project is not compared with the caller.
ownedByAnyone(project, userId) == TRUE

\* project.user_id !== user.id, negated
ownedBy(project, userId) == project.user_id = userId

\* The mutant: the cache is read whatever regenerate says.
readsCacheAlways(route, payload) == route = "script"

\* if (!payload.regenerate) { ... env.CACHE.get ... }: only the script route
\* has a cache, and it reads it unless regenerate is set.
readsCache(route, payload) == route = "script" /\ ~payload.regenerate

\* getProjectById and the ownership check, or createProject (script route
\* without projectId); statuses is history, the values status has had.
ResolveProject(s) ==
    /\ H(s).pc = "resolveProject"
    /\ LET h == H(s)
           found == getProjectById(projects, h.payload.projectId)
           after == IF readsCache(h.route, h.payload) THEN "cacheGet" ELSE "insertJob"
           keyed == [h EXCEPT !.key = IF h.route = "script" THEN cacheKey(h.payload) ELSE Null]
       IN  IF Truthy(h.payload.projectId)
           THEN /\ UNCHANGED projects
                /\ IF found = {} THEN Respond(s, h, badRequest("Project not found"))
                   ELSE LET project == CHOOSE p \in found : TRUE
                        IN  IF ~ownedBy(project, h.user)
                            THEN Respond(s, h, forbidden("Project does not belong to user"))
                            ELSE Goto(s, [keyed EXCEPT !.project = project.id], after)
           ELSE LET id == randomUUID("p", projects)
                IN  /\ projects' = projects \cup
                           {[id |-> id, user_id |-> h.user, title |-> h.payload.topic,
                             topic |-> h.payload.topic, status |-> "draft",
                             statuses |-> <<"draft">>]}
                    /\ Goto(s, [keyed EXCEPT !.project = id, !.made = @ \cup {"project"}], after)
    /\ UNCHANGED <<users, project_versions, assets, generation_jobs, CACHE, MEDIA_BUCKET,
                   started, generated>>

\* The mutant: the cache is read under the hash without the "script:" prefix.
cacheLookupUnprefixed(cache, payload) == cacheGet(cache, Tail(cacheKey(payload)))

\* env.CACHE.get(cacheKey, { type: "json" }) for the request's payload
cacheLookup(cache, payload) == cacheGet(cache, cacheKey(payload))

\* The mutant: a hit puts the entry again under its key, as the request's.
CacheGetRefreshing(s) ==
    /\ H(s).pc = "cacheGet"
    /\ LET hit == cacheLookup(CACHE, H(s).payload)
       IN  IF hit # {}
           THEN /\ Respond(s, H(s), [NoResponse EXCEPT !.status = 200, !.cached = TRUE,
                                       !.result = (CHOOSE c \in hit : TRUE).value])
                /\ CACHE' = (CACHE \ hit) \cup
                        {[key |-> H(s).key, value |-> (CHOOSE c \in hit : TRUE).value,
                          writer |-> H(s).n]}
           ELSE Goto(s, H(s), "insertJob") /\ UNCHANGED CACHE
    /\ UNCHANGED <<dbVars, MEDIA_BUCKET, started, generated>>

\* if (!payload.regenerate) { cached = await env.CACHE.get(...); if (cached) return ... }
CacheGet(s) ==
    /\ H(s).pc = "cacheGet"
    /\ LET hit == cacheLookup(CACHE, H(s).payload)
       IN  IF hit # {}
           THEN Respond(s, H(s), [NoResponse EXCEPT !.status = 200, !.cached = TRUE,
                                     !.result = (CHOOSE c \in hit : TRUE).value])
           ELSE Goto(s, H(s), "insertJob")
    /\ UNCHANGED <<dbVars, CACHE, MEDIA_BUCKET, started, generated>>

\* insertGenerationJob({ projectId, jobType, status: "running", payload })
InsertJob(s) ==
    /\ H(s).pc = "insertJob"
    /\ LET id == randomUUID("j", generation_jobs)
       IN  /\ generation_jobs' =
                  insertGenerationJob(generation_jobs, id, H(s).project, H(s).route,
                                      "running", H(s).payload, H(s).n)
           /\ Goto(s, [H(s) EXCEPT !.job = id, !.i = 1, !.made = @ \cup {"job"}],
                   IF H(s).route = "tts" THEN "section" ELSE "provider")
    /\ UNCHANGED <<users, projects, project_versions, assets, CACHE, MEDIA_BUCKET,
                   started, generated>>

\* generateYoutubeScript(...) or generateImage(...): it returns or throws.
Provider(s, ok) ==
    /\ H(s).pc = "provider"
    /\ LET h == [H(s) EXCEPT !.providerCalls = @ + 1]
       IN  IF ~ok THEN Caught(s, h, "provider error") /\ UNCHANGED generated
           ELSE IF h.route = "script"
           THEN /\ generated' = generated + 1
                /\ Goto(s, [h EXCEPT !.result = "script-" \o ToString(generated + 1)],
                        "versionSelect")
           ELSE /\ UNCHANGED generated
                /\ Goto(s, [h EXCEPT !.result = "image/png"], "bucketPut")
    /\ UNCHANGED <<dbVars, CACHE, MEDIA_BUCKET, started>>

\* The head of the tts loop: the next section is checked and synthesized.
Section(s, ok) ==
    /\ H(s).pc = "section"
    /\ LET h == H(s)
       IN  IF h.i > Len(h.payload.sections) THEN Goto(s, h, "jobSucceeded")
           ELSE IF ~Truthy(h.payload.sections[h.i]) THEN Caught(s, h, "Section text is required")
           ELSE IF ~ok THEN Caught(s, [h EXCEPT !.providerCalls = @ + 1], "provider error")
           ELSE Goto(s, [h EXCEPT !.providerCalls = @ + 1, !.result = "audio/mpeg"], "bucketPut")
    /\ UNCHANGED <<dbVars, CACHE, MEDIA_BUCKET, started, generated>>

\* env.MEDIA_BUCKET.put(key, ...)
BucketPut(s, ok) ==
    /\ H(s).pc = "bucketPut"
    /\ IF ~ok THEN Caught(s, H(s), "bucket error") /\ UNCHANGED MEDIA_BUCKET
       ELSE LET key == randomUUID(IF H(s).route = "tts" THEN "audio/" ELSE "images/",
                                  {[id |-> k] : k \in MEDIA_BUCKET})
            IN  /\ MEDIA_BUCKET' = MEDIA_BUCKET \cup {key}
                /\ Goto(s, [H(s) EXCEPT !.key = key, !.made = @ \cup {"object"}], "insertAsset")
    /\ UNCHANGED <<dbVars, CACHE, started, generated>>

\* insertAsset({ projectId, type, label, r2Key, ... })
InsertAsset(s, ok) ==
    /\ H(s).pc = "insertAsset"
    /\ IF ~ok THEN Caught(s, H(s), "database error") /\ UNCHANGED assets
       ELSE LET id == randomUUID("a", assets)
            IN  /\ assets' = assets \cup
                       {[id |-> id, project_id |-> H(s).project,
                         type |-> IF H(s).route = "tts" THEN "audio" ELSE "image",
                         r2_key |-> H(s).key]}
                /\ IF H(s).route = "tts"
                   THEN Goto(s, [H(s) EXCEPT !.results = Append(@, id), !.i = @ + 1,
                                             !.made = @ \cup {"asset"}], "section")
                   ELSE Goto(s, [H(s) EXCEPT !.results = Append(@, id),
                                             !.made = @ \cup {"asset"}], "jobSucceeded")
    /\ UNCHANGED <<users, projects, project_versions, generation_jobs, CACHE, MEDIA_BUCKET,
                   started, generated>>

\* insertProjectVersion: SELECT version ... ORDER BY version DESC LIMIT 1
VersionSelect(s) ==
    /\ H(s).pc = "versionSelect"
    /\ Goto(s, [H(s) EXCEPT !.lastVersion = lastVersionOf(project_versions, H(s).project),
                            !.selected = TRUE],
            "versionInsert")
    /\ UNCHANGED <<dbVars, CACHE, MEDIA_BUCKET, started, generated>>

\* insertProjectVersion: INSERT INTO project_versions ...; (project_id,
\* version) is UNIQUE (migrations/0000_init.sql).  The route passes
\* generatedWith, the accessor reads params.generatedMetadata: the column
\* is null.
VersionInsert(s, ok) ==
    /\ H(s).pc = "versionInsert"
    /\ LET nextVersion == H(s).lastVersion + 1
           taken == versionTaken(project_versions, H(s).project, nextVersion)
       IN  IF taken THEN Caught(s, H(s), "UNIQUE constraint failed") /\ UNCHANGED project_versions
           ELSE IF ~ok THEN Caught(s, H(s), "database error") /\ UNCHANGED project_versions
           ELSE /\ project_versions' =
                       projectVersionInsert(project_versions, H(s).project, nextVersion,
                                            H(s).result)
                /\ Goto(s, [H(s) EXCEPT !.made = @ \cup {"version"}], "updateProject")
    /\ UNCHANGED <<users, projects, assets, generation_jobs, CACHE, MEDIA_BUCKET,
                   started, generated>>

\* updateProjectMetadata(projectId, { topic, title: result.seo.title, status: "ready" })
UpdateProject(s, ok) ==
    /\ H(s).pc = "updateProject"
    /\ IF ~ok THEN Caught(s, H(s), "database error") /\ UNCHANGED projects
       ELSE /\ projects' = {IF p.id = H(s).project
                            THEN [p EXCEPT !.title = H(s).result, !.topic = H(s).payload.topic,
                                           !.status = "ready",
                                           !.statuses = Append(@, "ready")]
                            ELSE p : p \in projects}
            /\ Goto(s, [H(s) EXCEPT !.made = @ \cup {"projectUpdate"}], "cachePut")
    /\ UNCHANGED <<users, project_versions, assets, generation_jobs, CACHE, MEDIA_BUCKET,
                   started, generated>>

\* env.CACHE.put(cacheKey, JSON.stringify(result), { expirationTtl: 6 h });
\* the value read back with type "json" is the result; writer is history,
\* and so is the mark on the requests that started with the entry replaced.
CachePut(s, ok) ==
    /\ H(s).pc = "cachePut"
    /\ IF ~ok THEN Caught(s, H(s), "cache error") /\ UNCHANGED CACHE
       ELSE /\ CACHE' = (CACHE \ cacheGet(CACHE, H(s).key)) \cup
                           {[key |-> H(s).key, value |-> H(s).result, writer |-> H(s).n]}
            /\ handlers' = [t \in Slots |->
                  IF t = s THEN [H(s) EXCEPT !.made = @ \cup {"cache"}, !.pc = "jobSucceeded"]
                  ELSE IF BeforeCacheRead(H(t)) /\ cacheKey(H(t).payload) = H(s).key
                  THEN [H(t) EXCEPT !.overwritten = TRUE]
                  ELSE H(t)]
    /\ UNCHANGED <<dbVars, MEDIA_BUCKET, started, generated>>

\* The mutant: the statement after the update throws inside the try, so
\* that the catch block runs on a job already set to succeeded.
JobSucceededThenCaught(s, ok) ==
    /\ H(s).pc = "jobSucceeded"
    /\ IF ~ok THEN Caught(s, H(s), "database error") /\ UNCHANGED generation_jobs
       ELSE /\ generation_jobs' =
                   updateGenerationJobStatus(generation_jobs, H(s).job, "succeeded", Null, H(s).n)
            /\ Caught(s, H(s), "response error")
    /\ UNCHANGED <<users, projects, project_versions, assets, CACHE, MEDIA_BUCKET,
                   started, generated>>

\* updateGenerationJobStatus({ jobId, status: "succeeded" }) and the response.
JobSucceeded(s, ok) ==
    /\ H(s).pc = "jobSucceeded"
    /\ IF ~ok THEN Caught(s, H(s), "database error") /\ UNCHANGED generation_jobs
       ELSE /\ generation_jobs' =
                   updateGenerationJobStatus(generation_jobs, H(s).job, "succeeded", Null, H(s).n)
            /\ Respond(s, H(s), [NoResponse EXCEPT !.status = 200, !.result = H(s).result])
    /\ UNCHANGED <<users, projects, project_versions, assets, CACHE, MEDIA_BUCKET,
                   started, generated>>

\* The catch block: updateGenerationJobStatus({ jobId, status: "failed",
\* error }) and the 500 response; when that update is rejected the
\* exception leaves the handler.
Catch(s, ok) ==
    /\ H(s).pc = "catch"
    /\ IF ~ok THEN Throw(s, H(s)) /\ UNCHANGED generation_jobs
       ELSE /\ generation_jobs' =
                   updateGenerationJobStatus(generation_jobs, H(s).job, "failed",
                                             H(s).cause, H(s).n)
            /\ Respond(s, H(s), Response(500, FailureMessage(H(s).route)))
    /\ UNCHANGED <<users, projects, project_versions, assets, CACHE, MEDIA_BUCKET,
                   started, generated>>

\* The response (or the exception) has left; the slot serves the next request.
Finish(s) ==
    /\ H(s).pc = "done"
    /\ handlers' = [handlers EXCEPT ![s] = IdleHandler]
    /\ UNCHANGED <<dbVars, CACHE, MEDIA_BUCKET, started, generated>>

\* expirationTtl elapses for an entry; a request that has not yet read the
\* cache is marked (history) as having lost the entry it started with.
CacheExpire(c) ==
    /\ c \in CACHE
    /\ CACHE' = CACHE \ {c}
    /\ handlers' = [s \in Slots |->
          IF BeforeCacheRead(H(s)) /\ cacheKey(H(s).payload) = c.key
          THEN [H(s) EXCEPT !.expired = TRUE] ELSE H(s)]
    /\ UNCHANGED <<dbVars, MEDIA_BUCKET, started, generated>>

Init ==
    /\ env = BaseEnv
    /\ InitProc
    /\ InitSessIdle
    /\ InitAuthIdle
    /\ InitOrch

otherVars == <<procVars, sessVars, authVars, accessorVars>>

Next ==
    \/ \E s \in Slots : Start(s) /\ UNCHANGED otherVars
    \/ \E s \in Slots : EnsureUserSelect(s) /\ UNCHANGED otherVars
    \/ \E s \in Slots : EnsureUserUpdate(s) /\ UNCHANGED otherVars
    \/ \E s \in Slots : EnsureUserInsert(s) /\ UNCHANGED otherVars
    \/ \E s \in Slots : ResolveProject(s) /\ UNCHANGED otherVars
    \/ \E s \in Slots : CacheGet(s) /\ UNCHANGED otherVars
    \/ \E s \in Slots : InsertJob(s) /\ UNCHANGED otherVars
    \/ \E s \in Slots, ok \in BOOLEAN : Provider(s, ok) /\ UNCHANGED otherVars
    \/ \E s \in Slots, ok \in BOOLEAN : Section(s, ok) /\ UNCHANGED otherVars
    \/ \E s \in Slots, ok \in BOOLEAN : BucketPut(s, ok) /\ UNCHANGED otherVars
    \/ \E s \in Slots, ok \in BOOLEAN : InsertAsset(s, ok) /\ UNCHANGED otherVars
    \/ \E s \in Slots : VersionSelect(s) /\ UNCHANGED otherVars
    \/ \E s \in Slots, ok \in BOOLEAN : VersionInsert(s, ok) /\ UNCHANGED otherVars
    \/ \E s \in Slots, ok \in BOOLEAN : UpdateProject(s, ok) /\ UNCHANGED otherVars
    \/ \E s \in Slots, ok \in BOOLEAN : CachePut(s, ok) /\ UNCHANGED otherVars
    \/ \E s \in Slots, ok \in BOOLEAN : JobSucceeded(s, ok) /\ UNCHANGED otherVars
    \/ \E s \in Slots, ok \in BOOLEAN : Catch(s, ok) /\ UNCHANGED otherVars
    \/ \E s \in Slots : Finish(s) /\ UNCHANGED otherVars
    \/ \E c \in CACHE : CacheExpire(c) /\ UNCHANGED otherVars

Spec == Init /\ [][Next]_vars


(***************************************************************************)
(* Properties of the generation orchestrators.                             *)
(***************************************************************************)
InFlight == {s \in Slots : H(s).pc # "idle"}
Ended(h) == h.pc = "done"

\* The request names a project that exists and is owned by a user whose
\* subject is not the caller's.
Foreign(h) ==
    /\ Truthy(h.sub)
    /\ \E p \in projects : /\ p.id = h.payload.projectId
                           /\ \E u \in users : u.id = p.user_id /\ u.access_sub # h.sub

\* The request names no project, or one of the caller's.
OwnProject(h) ==
    \/ ~Truthy(h.payload.projectId)
    \/ \E p \in projects : /\ p.id = h.payload.projectId
                           /\ \E u \in users : u.id = p.user_id /\ u.access_sub = h.sub

CreatesNothing(h) ==
    /\ h.made \cap {"version", "asset", "job"} = {}
    /\ h.providerCalls = 0
    /\ h.job = Null

SecondOfPair(h) ==
    /\ h.route = "script" /\ Truthy(h.sub) /\ h.payload.json
    /\ ~h.payload.regenerate
    /\ h.first # 0 /\ ~h.expired

CacheHit(h) ==
    /\ h.providerCalls = 0
    /\ "job" \notin h.made /\ h.job = Null
    /\ ~h.threw
    /\ h.response.status = 200 /\ h.response.cached
    /\ h.response.result = h.firstValue

(***************************************************************************)
(* C2 as stated: of two script-generation requests with identical topic,   *)
(* persona, lengthMinutes and language and regenerate unset, the second,   *)
(* started after the first has populated the cache and while the entry has *)
(* not expired, does not invoke the provider, creates no GenerationJob and *)
(* returns cached: true with exactly the first one's result.               *)
(***************************************************************************)
C2_SecondRequestServedFromCache ==
    \A s \in InFlight :
        (SecondOfPair(H(s)) /\ Ended(H(s))) => CacheHit(H(s))

(***************************************************************************)
(* C2 as amended: the same, for a second request that names no project or  *)
(* a project of its caller, that finds its caller's User row or inserts    *)
(* it, and whose cache entry no other request has written again before it  *)
(* is read; a second request that names a missing or a foreign project is  *)
(* answered 400 or 403, and in no case does the second request invoke the  *)
(* provider or create a GenerationJob.                                     *)
(***************************************************************************)
C2_AuthorizedSecondRequestServedFromCache ==
    \A s \in InFlight :
        SecondOfPair(H(s)) =>
            /\ ~H(s).overwritten => (H(s).providerCalls = 0 /\ "job" \notin H(s).made)
            /\ (Ended(H(s)) /\ ~H(s).overwritten /\ ~H(s).threw) =>
                  IF OwnProject(H(s)) THEN CacheHit(H(s))
                  ELSE H(s).response.status \in {400, 403}

\* A second request served from the cache with the first one's script.
C2_WitnessCacheHit ==
    \E s \in InFlight :
        /\ SecondOfPair(H(s)) /\ Ended(H(s))
        /\ H(s).first # H(s).n
        /\ H(s).response.cached /\ H(s).response.result = "script-1"
        /\ H(s).providerCalls = 0

\* The request that inserted job j has ended.
CreatorEnded(j) == \A s \in Slots : H(s).n = j.creator => Ended(H(s))

(***************************************************************************)
(* C3 as stated: every GenerationJob is created running and is moved to    *)
(* exactly one terminal status (succeeded or failed) by the request that   *)
(* created it; when that request has ended, the job is no longer running,  *)
(* including when a storage or cache write failed during the request.      *)
(***************************************************************************)
C3_JobTerminalWhenRequestEnds ==
    \A j \in generation_jobs :
        /\ Len(j.updates) <= 1
        /\ j.updates = <<>> => j.status = "running"
        /\ j.updates # <<>> =>
              /\ j.updates[1][1] = j.creator
              /\ j.updates[1][2] \in {"succeeded", "failed"}
              /\ j.status = j.updates[1][2]
        /\ CreatorEnded(j) => j.status # "running"

(***************************************************************************)
(* C3, the part that holds: every GenerationJob is created running, its    *)
(* status is written at most once, by the request that created it, to      *)
(* succeeded or failed; and when that request has returned a response of   *)
(* its own (it did not end with an exception), the job is not running.     *)
(***************************************************************************)
C3_JobTerminalWhenHandlerReturns ==
    \A j \in generation_jobs :
        /\ Len(j.updates) <= 1
        /\ j.updates = <<>> => j.status = "running"
        /\ j.updates # <<>> =>
              /\ j.updates[1][1] = j.creator
              /\ j.updates[1][2] \in {"succeeded", "failed"}
              /\ j.status = j.updates[1][2]
        /\ \A s \in InFlight :
              (H(s).job = j.id /\ Ended(H(s)) /\ ~H(s).threw) =>
                  /\ j.status # "running"
                  /\ j.status = "failed" <=> H(s).response.status = 500

\* A script request without projectId from a subject that had no User row
\* when it arrived, whose provider call and writes all succeeded.
FreshScriptDone(h) ==
    /\ h.route = "script" /\ ~Truthy(h.payload.projectId) /\ h.fresh
    /\ Ended(h) /\ ~h.threw
    /\ h.providerCalls = 1 /\ h.response.status = 200

(***************************************************************************)
(* C12: a script-generation request without projectId from a subject with  *)
(* no User row and no projects, whose provider call and writes all         *)
(* succeed, leaves exactly one User, exactly one Project owned by that     *)
(* user whose status went draft then ready, exactly one ProjectVersion     *)
(* with version = 1 for that project, and exactly one GenerationJob that   *)
(* went running then succeeded, and responds with cached: false.  The      *)
(* Project, ProjectVersion and GenerationJob are those the request wrote   *)
(* (the User row may be the one a concurrent request of the same subject   *)
(* inserted first); when no other request has been received, they are all  *)
(* the rows there are.                                                     *)
(***************************************************************************)
C12_FreshScriptRequest ==
    \A s \in InFlight :
        FreshScriptDone(H(s)) =>
            LET h == H(s)
                mine == {u \in users : u.access_sub = h.sub}
                owned == {p \in projects : p.user_id = h.user}
                project == {p \in projects : p.id = h.project}
                written == {v \in project_versions :
                                v.project_id = h.project /\ v.script = h.result}
                jobs == {j \in generation_jobs : j.creator = h.n}
            IN  /\ h.made \ {"user", "userUpdate"}
                       = {"project", "job", "version", "projectUpdate", "cache"}
                /\ Cardinality(mine) = 1 /\ \A u \in mine : u.id = h.user
                /\ Cardinality(project) = 1 /\ project \subseteq owned
                /\ \A p \in project : /\ Len(p.statuses) >= 2 /\ p.status = "ready"
                                        /\ SubSeq(p.statuses, 1, 2) = <<"draft", "ready">>
                /\ Cardinality(written) = 1
                /\ Cardinality(jobs) = 1
                /\ \A j \in jobs : /\ j.id = h.job /\ j.project_id = h.project
                                     /\ j.status = "succeeded"
                                     /\ j.updates = <<(<<h.n, "succeeded">>)>>
                /\ ~h.response.cached /\ h.response.result = h.result
                /\ started = 1 =>
                      /\ "user" \in h.made
                      /\ users = mine /\ projects = project
                      /\ project_versions = written /\ generation_jobs = jobs
                      /\ \A v \in written : v.version = 1
                      /\ \A p \in project : p.statuses = <<"draft", "ready">>

\* The first request the system sees, a script request of a, has ended.
C12_WitnessFirstScript ==
    \E s \in InFlight :
        /\ FreshScriptDone(H(s)) /\ started = 1
        /\ H(s).sub = "a" /\ H(s).response.result = "script-1"
        /\ Cardinality(project_versions) = 1

\* A tts request one of whose sections failed: section h.i is the first
\* whose text is empty or whose synthesis or storage failed.
SectionFailed(h) ==
    /\ h.route = "tts" /\ h.cause # Null
    /\ h.i <= Len(h.payload.sections)

\* The Asset rows of the request and the synthesis calls it made, for a
\* first failure at section k.
PartialAssets(h, k) ==
    /\ Len(h.results) = k - 1
    /\ Cardinality({a \in assets : \E r \in 1..Len(h.results) : h.results[r] = a.id}) = k - 1
    /\ \A a \in assets : (\E r \in 1..Len(h.results) : h.results[r] = a.id) =>
              a.project_id = h.project /\ a.type = "audio"
    /\ h.providerCalls = IF Truthy(h.payload.sections[k]) THEN k ELSE k - 1

(***************************************************************************)
(* C13 as stated: for a TTS request with n sections processed in order, if *)
(* section k is the first whose text is empty/non-string or whose          *)
(* synthesis or storage fails, then exactly k-1 Asset rows are created     *)
(* (one for each preceding section, none rolled back), no synthesis is     *)
(* attempted for sections after k, the GenerationJob ends failed with an   *)
(* error message, and the response is HTTP 500.                            *)
(***************************************************************************)
C13_FirstSectionFailureFailsJob ==
    \A s \in InFlight :
        SectionFailed(H(s)) =>
            /\ PartialAssets(H(s), H(s).i)
            /\ Ended(H(s)) =>
                  /\ ~H(s).threw /\ H(s).response.status = 500
                  /\ \A j \in generation_jobs :
                        j.id = H(s).job => (j.status = "failed" /\ j.error = H(s).cause)

(***************************************************************************)
(* C13, the part that holds: the k-1 Asset rows and the synthesis calls    *)
(* are as stated; the job is failed with the error message and the         *)
(* response is 500 whenever the handler returns a response, and the job    *)
(* is left running when the update to failed was rejected and the          *)
(* exception left the handler.                                             *)
(***************************************************************************)
C13_FirstSectionFailureKeepsAssets ==
    \A s \in InFlight :
        SectionFailed(H(s)) =>
            /\ PartialAssets(H(s), H(s).i)
            /\ \A j \in generation_jobs :
                  (j.id = H(s).job /\ Ended(H(s))) =>
                      IF H(s).threw THEN j.status = "running"
                      ELSE /\ H(s).response = Response(500, FailureMessage("tts"))
                           /\ j.status = "failed" /\ j.error = H(s).cause

\* Two sections, the second with empty text: one Asset row, job failed, 500.
C13_WitnessSecondSectionEmpty ==
    \E s \in InFlight :
        /\ SectionFailed(H(s)) /\ Ended(H(s)) /\ ~H(s).threw
        /\ H(s).payload.sections = <<"hi", "">> /\ H(s).i = 2
        /\ Len(H(s).results) = 1 /\ H(s).providerCalls = 1
        /\ H(s).response.status = 500

(***************************************************************************)
(* SpecUsers and SpecVersions: ensureUser, respectively                    *)
(* insertProjectVersion, called directly by MaxClients callers at once,    *)
(* each call suspended at its awaits, on a database that two failed script *)
(* requests of subject a have left.                                        *)
(***************************************************************************)
D(c) == dbCalls[c]

\* The tables after two script requests of a ({topic: "t1", regenerate:
\* true}) whose provider calls failed: one User, two draft Projects, two
\* failed jobs.
DbStartUsers == {[id |-> "u1", access_sub |-> "a", email |-> "a@x", name |-> Null]}
DbStartProjects ==
    {[id |-> p, user_id |-> "u1", title |-> "t1", topic |-> "t1", status |-> "draft",
      statuses |-> <<"draft">>] : p \in {"p1", "p2"}}
DbStartJobs ==
    {[id |-> "j" \o ToString(n), project_id |-> "p" \o ToString(n), job_type |-> "script",
      status |-> "failed", error |-> "provider error",
      payload |-> [NoPayloadBody EXCEPT !.topic = "t1", !.regenerate = TRUE],
      creator |-> n, updates |-> <<(<<n, "failed">>)>>] : n \in {1, 2}}

InitDb ==
    /\ env = BaseEnv
    /\ InitProc
    /\ InitSessIdle
    /\ InitAuthIdle
    /\ users = DbStartUsers
    /\ projects = DbStartProjects
    /\ generation_jobs = DbStartJobs
    /\ project_versions = {}
    /\ assets = {}
    /\ CACHE = {}
    /\ MEDIA_BUCKET = {}
    /\ handlers = [s \in Slots |-> IdleHandler]
    /\ started = 2
    /\ generated = 0

\* The parameters of the calls.
EnsureUserParams ==
    [accessSub : {"a", "b"}, email : {Null, "", "n@x"}, name : {Null, "Ann"}]
DbProjectIds == {p.id : p \in DbStartProjects}

DbStep(c, call) == dbCalls' = [dbCalls EXCEPT ![c] = call]

DbUnchanged == <<procVars, sessVars, authVars, projects, assets, generation_jobs, CACHE,
                 MEDIA_BUCKET, handlers, started, generated>>

\* ensureUser(params) is called.
DbCallEnsureUser(c, params) ==
    /\ D(c).pc = "idle" /\ dbIssued < MaxUserCalls
    /\ dbIssued' = dbIssued + 1
    /\ DbStep(c, [IdleCall EXCEPT !.op = "ensureUser", !.pc = "select",
                                  !.sub = params.accessSub, !.email = params.email,
                                  !.name = params.name])
    /\ UNCHANGED <<users, project_versions, dbInterleaved, DbUnchanged>>

\* ensureUser: SELECT ... WHERE access_sub = ?; without email and name the
\* row found is returned as it is.
DbEnsureUserSelect(c) ==
    /\ D(c).op = "ensureUser" /\ D(c).pc = "select"
    /\ LET existing == userBySub(users, D(c).sub)
       IN  IF existing = {} THEN DbStep(c, [D(c) EXCEPT !.pc = "insert"])
           ELSE LET u == CHOOSE u \in existing : TRUE
                IN  IF Truthy(D(c).email) \/ Truthy(D(c).name)
                    THEN DbStep(c, [D(c) EXCEPT !.pc = "update", !.found = TRUE,
                                                !.existing = u, !.id = u.id])
                    ELSE DbStep(c, [D(c) EXCEPT !.pc = "done", !.found = TRUE,
                                                !.existing = u, !.id = u.id, !.returned = u])
    /\ UNCHANGED <<users, project_versions, dbIssued, dbInterleaved, DbUnchanged>>

\* ensureUser: the UPDATE, and return { ...existing, email: params.email ??
\* existing.email, name: params.name ?? existing.name }.
DbEnsureUserUpdate(c) ==
    /\ D(c).op = "ensureUser" /\ D(c).pc = "update"
    /\ users' = ensureUserUpdate(users, D(c).id, D(c).email, D(c).name)
    /\ DbStep(c, [D(c) EXCEPT !.pc = "done",
                              !.returned = [D(c).existing EXCEPT
                                               !.email = Coalesce(D(c).email, @),
                                               !.name = Coalesce(D(c).name, @)]])
    /\ UNCHANGED <<project_versions, dbIssued, dbInterleaved, DbUnchanged>>

\* ensureUser: the INSERT; access_sub is UNIQUE, so that the INSERT of a
\* subject another call has inserted meanwhile is rejected.
DbEnsureUserInsert(c) ==
    /\ D(c).op = "ensureUser" /\ D(c).pc = "insert"
    /\ IF userBySub(users, D(c).sub) # {}
       THEN /\ DbStep(c, [D(c) EXCEPT !.pc = "done", !.threw = TRUE,
                                      !.cause = "UNIQUE constraint failed"])
            /\ UNCHANGED users
       ELSE LET id == randomUUID("u", users)
            IN  /\ users' = ensureUserInsert(users, id, D(c).sub, D(c).email, D(c).name)
                /\ DbStep(c, [D(c) EXCEPT !.pc = "reselect", !.id = id, !.created = TRUE])
    /\ UNCHANGED <<project_versions, dbIssued, dbInterleaved, DbUnchanged>>

\* ensureUser: SELECT ... WHERE id = ? after the INSERT.
DbEnsureUserReselect(c) ==
    /\ D(c).op = "ensureUser" /\ D(c).pc = "reselect"
    /\ LET inserted == {u \in users : u.id = D(c).id}
       IN  IF inserted = {}
           THEN DbStep(c, [D(c) EXCEPT !.pc = "done", !.threw = TRUE,
                                       !.cause = "Failed to insert user"])
           ELSE DbStep(c, [D(c) EXCEPT !.pc = "done",
                                       !.returned = CHOOSE u \in inserted : TRUE])
    /\ UNCHANGED <<users, project_versions, dbIssued, dbInterleaved, DbUnchanged>>

\* Another insertProjectVersion call for the project is in progress.
DbVersionCallInProgress(c, projectId) ==
    \E d \in Clients \ {c} :
        /\ D(d).op = "insertProjectVersion" /\ D(d).projectId = projectId
        /\ D(d).pc \in {"select", "insert", "reselect"}

\* insertProjectVersion({ projectId, ... }) is called.
DbCallInsertProjectVersion(c, projectId) ==
    /\ D(c).pc = "idle" /\ dbIssued < MaxCalls
    /\ dbIssued' = dbIssued + 1
    /\ DbStep(c, [IdleCall EXCEPT !.op = "insertProjectVersion", !.pc = "select",
                                  !.projectId = projectId])
    /\ dbInterleaved' = IF DbVersionCallInProgress(c, projectId)
                        THEN dbInterleaved \cup {projectId} ELSE dbInterleaved
    /\ UNCHANGED <<users, project_versions, DbUnchanged>>

\* insertProjectVersion: SELECT version ... ORDER BY version DESC LIMIT 1
DbVersionSelect(c) ==
    /\ D(c).op = "insertProjectVersion" /\ D(c).pc = "select"
    /\ DbStep(c, [D(c) EXCEPT !.pc = "insert",
                              !.lastVersion = lastVersionOf(project_versions, D(c).projectId)])
    /\ UNCHANGED <<users, project_versions, dbIssued, dbInterleaved, DbUnchanged>>

\* insertProjectVersion: the INSERT of nextVersion, rejected by the unique
\* index or by the database (ok = FALSE).
DbVersionInsert(c, ok) ==
    /\ D(c).op = "insertProjectVersion" /\ D(c).pc = "insert"
    /\ LET nextVersion == D(c).lastVersion + 1
       IN  IF versionTaken(project_versions, D(c).projectId, nextVersion)
           THEN /\ DbStep(c, [D(c) EXCEPT !.pc = "done", !.threw = TRUE,
                                          !.cause = "UNIQUE constraint failed"])
                /\ UNCHANGED project_versions
           ELSE IF ~ok
           THEN /\ DbStep(c, [D(c) EXCEPT !.pc = "done", !.threw = TRUE,
                                          !.cause = "database error"])
                /\ UNCHANGED project_versions
           ELSE /\ project_versions' =
                       projectVersionInsert(project_versions, D(c).projectId, nextVersion,
                                            "script")
                /\ DbStep(c, [D(c) EXCEPT !.pc = "reselect", !.version = nextVersion,
                                          !.created = TRUE])
    /\ UNCHANGED <<users, dbIssued, dbInterleaved, DbUnchanged>>

\* insertProjectVersion: SELECT ... WHERE id = ? after the INSERT.
DbVersionReselect(c) ==
    /\ D(c).op = "insertProjectVersion" /\ D(c).pc = "reselect"
    /\ DbStep(c, [D(c) EXCEPT !.pc = "done"])
    /\ UNCHANGED <<users, project_versions, dbIssued, dbInterleaved, DbUnchanged>>

\* The caller has the result (or the exception); it may call again.
DbReturn(c) ==
    /\ D(c).pc = "done"
    /\ DbStep(c, IdleCall)
    /\ UNCHANGED <<users, project_versions, dbIssued, dbInterleaved, DbUnchanged>>

NextUsers ==
    \/ \E c \in Clients, params \in EnsureUserParams : DbCallEnsureUser(c, params)
    \/ \E c \in Clients : DbEnsureUserSelect(c)
    \/ \E c \in Clients : DbEnsureUserUpdate(c)
    \/ \E c \in Clients : DbEnsureUserInsert(c)
    \/ \E c \in Clients : DbEnsureUserReselect(c)
    \/ \E c \in Clients : DbReturn(c)

SpecUsers == InitDb /\ [][NextUsers]_vars

NextVersions ==
    \/ \E c \in Clients, projectId \in DbProjectIds : DbCallInsertProjectVersion(c, projectId)
    \/ \E c \in Clients : DbVersionSelect(c)
    \/ \E c \in Clients, ok \in BOOLEAN : DbVersionInsert(c, ok)
    \/ \E c \in Clients : DbVersionReselect(c)
    \/ \E c \in Clients : DbReturn(c)

SpecVersions == InitDb /\ [][NextVersions]_vars

\* The tables these start from are tables the route handlers leave.
DbStartReached ==
    /\ users = DbStartUsers /\ projects = DbStartProjects
    /\ generation_jobs = DbStartJobs
    /\ project_versions = {} /\ assets = {} /\ CACHE = {} /\ MEDIA_BUCKET = {}
    /\ \A s \in Slots : H(s).pc = "idle"

VersionsOf(p) == {v \in project_versions : v.project_id = p}

(***************************************************************************)
(* C14: when insertProjectVersion calls for one project run one at a time  *)
(* (no interleaving), each call inserts version max(existing)+1 (1 for a   *)
(* project with none): after n successful inserts the project's version    *)
(* numbers are exactly 1..n with no reuse and no gap, e.g. a project at    *)
(* version 3 gets version 4.                                               *)
(***************************************************************************)
C14_SequentialVersionNumbers ==
    \A p \in DbProjectIds :
        p \notin dbInterleaved =>
            /\ {v.version : v \in VersionsOf(p)} = 1..Cardinality(VersionsOf(p))
            /\ \A c \in Clients :
                  (D(c).op = "insertProjectVersion" /\ D(c).projectId = p) =>
                      /\ D(c).cause # "UNIQUE constraint failed"
                      /\ D(c).created =>
                            /\ D(c).version = D(c).lastVersion + 1
                            /\ \E v \in VersionsOf(p) : v.version = D(c).version
                      /\ D(c).pc = "insert" =>
                            D(c).lastVersion = Cardinality(VersionsOf(p))

\* A project at version 3 gets version 4, the other project having versions.
C14_WitnessFourthVersion ==
    \E c \in Clients :
        /\ D(c).op = "insertProjectVersion" /\ D(c).pc = "done" /\ ~D(c).threw
        /\ D(c).projectId \notin dbInterleaved
        /\ D(c).lastVersion = 3 /\ D(c).version = 4
        /\ Cardinality(VersionsOf(D(c).projectId)) = 4

(***************************************************************************)
(* C15: in every reachable state, including all interleavings of           *)
(* concurrent script-generation requests for the same project (whose only  *)
(* write to project_versions is their insertProjectVersion call), no two   *)
(* ProjectVersion rows of one project carry the same version number, and   *)
(* versions are strictly increasing in insertion order.                    *)
(***************************************************************************)
C15_VersionsUniqueAndIncreasing ==
    \A v \in project_versions, w \in project_versions :
        (v.project_id = w.project_id /\ v # w) =>
            /\ v.version # w.version
            /\ v.ord < w.ord => v.version < w.version

\* Two overlapping calls read the same maximum: one inserts, the other is
\* rejected by the unique index.
C15_WitnessRaceRejected ==
    \E c \in Clients, d \in Clients :
        /\ c # d
        /\ D(c).op = "insertProjectVersion" /\ D(d).op = "insertProjectVersion"
        /\ D(c).projectId = D(d).projectId /\ D(c).lastVersion = D(d).lastVersion
        /\ D(c).created /\ D(d).cause = "UNIQUE constraint failed"
        /\ Cardinality(VersionsOf(D(c).projectId)) >= 2

\* A script request without projectId and with regenerate unset that
\* repeats the four fields of a request whose result was in the cache when
\* it arrived and still was when it read the cache; it has ended, and so has
\* every other request.
RepeatDone(s) ==
    /\ SecondOfPair(H(s)) /\ ~Truthy(H(s).payload.projectId)
    /\ ~H(s).overwritten
    /\ Ended(H(s)) /\ ~H(s).threw
    /\ \A t \in Slots \ {s} : H(t).pc \in {"idle", "done"}

(***************************************************************************)
(* C16 as stated: POST /generate/script is idempotent on the topic hash:   *)
(* repeating a request with the same topic/persona/length/language         *)
(* (regenerate unset, no projectId, after the first request completed and  *)
(* cached) returns the same result and leaves the projects,                *)
(* project_versions and generation_jobs tables as they were after the      *)
(* first request.                                                          *)
(***************************************************************************)
C16_RepeatLeavesTablesAlone ==
    \A s \in InFlight :
        RepeatDone(s) =>
            /\ H(s).response.status = 200 /\ H(s).response.result = H(s).firstValue
            /\ H(s).made \cap {"project", "projectUpdate", "version", "job"} = {}

(***************************************************************************)
(* C16, the part that holds: the repeated request returns the cached       *)
(* result, calls no provider and writes no ProjectVersion and no           *)
(* GenerationJob; it does insert one more Project, which stays a draft     *)
(* without versions.                                                       *)
(***************************************************************************)
C16_RepeatInsertsDraftProject ==
    \A s \in InFlight :
        RepeatDone(s) =>
            /\ CacheHit(H(s))
            /\ H(s).made \ {"user", "userUpdate"} = {"project"}
            /\ \E p \in projects : /\ p.id = H(s).project /\ p.status = "draft"
                                   /\ p.statuses = <<"draft">>
            /\ \A v \in project_versions : v.project_id # H(s).project

\* The second of two identical requests of one user, served from the cache.
C16_WitnessRepeat ==
    \E s \in InFlight :
        /\ RepeatDone(s) /\ H(s).n = 2 /\ ~H(s).fresh
        /\ H(s).response.cached
        /\ Cardinality(projects) = 2

\* The writes that make up ensureUser's upsert of the caller's User row,
\* and the writes to a project's data.
UserUpsert == {"user", "userUpdate"}
ProjectWrites == {"job", "version", "projectUpdate", "asset", "object", "cache"}

(***************************************************************************)
(* C17 as stated: in each of the three orchestrators, authorization is     *)
(* checked before any mutation: a request that ends with 401 or 403 has    *)
(* performed no write to any table (users, projects, project_versions,     *)
(* assets, generation_jobs), cache or media bucket.                        *)
(***************************************************************************)
C17_RefusedRequestWroteNothing ==
    \A s \in InFlight :
        (Ended(H(s)) /\ H(s).response.status \in {401, 403}) => H(s).made = {}

(***************************************************************************)
(* C17 as amended: a request that ends with 401 has performed no write at  *)
(* all; a request that ends with 403 has performed no write other than     *)
(* ensureUser's upsert of its own subject's User row (the INSERT of the    *)
(* row, or the UPDATE of its email and name), which precedes the ownership *)
(* check; and a request writes to a project's jobs, versions, assets,      *)
(* metadata, media objects or cache entry only after the ownership check   *)
(* has found the project to belong to its subject's User.                  *)
(***************************************************************************)
C17_RefusedRequestWroteOwnUserOnly ==
    \A s \in InFlight :
        LET h == H(s)
        IN  /\ (Ended(h) /\ h.response.status = 401) => h.made = {}
            /\ (Ended(h) /\ h.response.status = 403) => h.made \subseteq UserUpsert
            /\ h.made \cap UserUpsert # {} =>
                  \E u \in users : u.id = h.user /\ u.access_sub = h.sub
            /\ h.made \cap ProjectWrites # {} =>
                  /\ \E p \in projects : p.id = h.project /\ p.user_id = h.user
                  /\ \E u \in users : u.id = h.user /\ u.access_sub = h.sub

\* A first request of b for a project of a: 403, b's User row inserted.
C17_WitnessForbiddenAfterInsert ==
    \E s \in InFlight :
        /\ Ended(H(s)) /\ H(s).response.status = 403
        /\ H(s).sub = "b" /\ H(s).fresh /\ H(s).made = {"user"}
        /\ \E u \in users : u.access_sub = "b"

(***************************************************************************)
(* C18: in each orchestrator a request without an x-user-sub header is     *)
(* answered 401 whatever its body (valid, missing required fields, or      *)
(* malformed JSON): the authorization failure takes precedence over 400.   *)
(* Such a request reads no body and changes no state: the step that        *)
(* receives it leaves the tables, the cache and the bucket as they were,   *)
(* and the request takes no further step.                                  *)
(***************************************************************************)
C18_NoSubjectIs401 ==
    /\ [](\A s \in InFlight :
            ~Truthy(H(s).sub) =>
                /\ Ended(H(s)) /\ ~H(s).threw
                /\ H(s).response = unauthorized
                /\ ~H(s).bodyRead
                /\ H(s).made = {} /\ H(s).providerCalls = 0
                /\ H(s).user = Null /\ H(s).project = Null /\ H(s).job = Null)
    /\ [][\A s \in Slots :
            (H(s).pc = "idle" /\ handlers'[s].pc # "idle" /\ ~Truthy(handlers'[s].sub)) =>
                UNCHANGED <<dbVars, CACHE, MEDIA_BUCKET, generated>>]_vars

\* Two requests without a subject have ended, one on a body that is not
\* JSON and one on a body that passes validation, on different routes.
C18_WitnessAnyBody ==
    \E s, t \in InFlight :
        /\ H(s).sub = Null /\ H(t).sub = Null
        /\ Ended(H(s)) /\ Ended(H(t))
        /\ ~H(s).payload.json /\ H(s).route = "tts"
        /\ H(t).route = "image" /\ H(t).payload.prompt = "cat"
        /\ H(t).payload.projectId = "nope"
        /\ H(s).response.status = 401 /\ H(t).response.status = 401

\* The request of slot s entered its catch block and has ended.
FailedAfterJob(s) == Ended(H(s)) /\ H(s).cause # Null

(***************************************************************************)
(* C19 as stated: when the provider call or a write fails after the        *)
(* GenerationJob was created, the job's error field records the failure's  *)
(* message and the HTTP response is a 500 whose body is a fixed            *)
(* per-endpoint message: two requests to the same endpoint that failed     *)
(* for different causes have received identical responses, and the         *)
(* response never carries the cause's text.                                *)
(***************************************************************************)
C19_FailureRecordedAndGeneric500 ==
    \A s \in InFlight :
        FailedAfterJob(s) =>
            /\ ~H(s).threw
            /\ H(s).response = Response(500, FailureMessage(H(s).route))
            /\ \E j \in generation_jobs :
                  j.id = H(s).job /\ j.status = "failed" /\ j.error = H(s).cause
            /\ \A t \in InFlight :
                  (FailedAfterJob(t) /\ H(t).route = H(s).route) =>
                      H(t).response = H(s).response

(***************************************************************************)
(* C19, the part that holds: when the handler returns after a failure in   *)
(* its try block, the job is failed with the failure's message as error,   *)
(* the response is the endpoint's fixed 500, equal for any two failed      *)
(* requests to the endpoint whatever their causes, and different from      *)
(* the cause's text.                                                       *)
(***************************************************************************)
C19_ReturnedFailureIsGeneric500 ==
    \A s \in InFlight :
        (FailedAfterJob(s) /\ ~H(s).threw) =>
            /\ H(s).response = Response(500, FailureMessage(H(s).route))
            /\ H(s).response.error # H(s).cause
            /\ \E j \in generation_jobs :
                  j.id = H(s).job /\ j.status = "failed" /\ j.error = H(s).cause
            /\ \A t \in InFlight :
                  (FailedAfterJob(t) /\ ~H(t).threw /\ H(t).route = H(s).route) =>
                      H(t).response = H(s).response

\* Two requests to one endpoint have failed for different causes, one of
\* them the provider's error, and both have returned.
C19_WitnessTwoCauses ==
    \E s, t \in InFlight :
        /\ FailedAfterJob(s) /\ FailedAfterJob(t) /\ ~H(s).threw /\ ~H(t).threw
        /\ H(s).route = H(t).route
        /\ H(s).cause = "provider error" /\ H(t).cause # "provider error"

\* The ensureUser call of client c has returned a row.
EnsureUserReturned(c) == D(c).op = "ensureUser" /\ D(c).pc = "done" /\ ~D(c).threw

\* Upsert keyed by access subject: one row per subject; a call that found
\* the subject's row returns the row of that id and creates none; a call
\* that found none returns the row it created.
UpsertBySubject ==
    /\ \A u, w \in users : u.access_sub = w.access_sub => u = w
    /\ \A c \in Clients :
          EnsureUserReturned(c) =>
              /\ D(c).returned.access_sub = D(c).sub
              /\ D(c).returned.id = D(c).id
              /\ D(c).found => ~D(c).created /\ D(c).returned.id = D(c).existing.id
              /\ ~D(c).found => D(c).created
              /\ \E u \in users : u.id = D(c).id /\ u.access_sub = D(c).sub

\* In this step every row stays, with its id and subject, and its email
\* (resp. name) changes only to the email (resp. name) of an ensureUser
\* call on the row whose email (resp. name) satisfies supplied.
ChangedOnlyWhen(supplied(_)) ==
    \A u \in users :
        \E w \in users' :
            /\ w.id = u.id /\ w.access_sub = u.access_sub
            /\ w.email # u.email =>
                  \E c \in Clients : /\ D(c).pc = "update" /\ D(c).id = u.id
                                      /\ supplied(D(c).email) /\ w.email = D(c).email
            /\ w.name # u.name =>
                  \E c \in Clients : /\ D(c).pc = "update" /\ D(c).id = u.id
                                      /\ supplied(D(c).name) /\ w.name = D(c).name

NotNull(v) == v # Null

(***************************************************************************)
(* C20 as stated: ensureUser has upsert semantics keyed by access subject: *)
(* the first call for a subject creates one User row, a later call returns *)
(* the row with the same id and creates none; an existing row's email      *)
(* (resp. name) is changed only when the call supplies a new non-empty     *)
(* email (resp. name), so a call supplying an empty or absent email never  *)
(* overwrites a stored email.                                              *)
(***************************************************************************)
C20_UpsertChangesOnlyOnNonEmpty ==
    /\ []UpsertBySubject
    /\ [][ChangedOnlyWhen(Truthy)]_vars

(***************************************************************************)
(* C20, the part that holds: upsert keyed by access subject, and an        *)
(* existing row's email (resp. name) is changed only by a call that        *)
(* supplies an email or a name, to the email (resp. name) it supplies      *)
(* when that is not null: an absent email never overwrites a stored one,   *)
(* an empty one does when the call supplies a name.                        *)
(***************************************************************************)
C20_UpsertChangesOnlyOnNonNull ==
    /\ []UpsertBySubject
    /\ [][ChangedOnlyWhen(NotNull)]_vars

\* A call with an empty email and a name has emptied the stored email of
\* the row of subject a.
C20_WitnessEmailEmptied ==
    \E c \in Clients :
        /\ EnsureUserReturned(c) /\ D(c).found
        /\ D(c).email = "" /\ D(c).name = "Ann"
        /\ D(c).existing.email = "a@x"
        /\ \E u \in users : u.id = D(c).id /\ u.email = "" /\ u.name = "Ann"

(***************************************************************************)
(* C21: a request with method OPTIONS, or whose path is in the public      *)
(* allow-list or matches the static-asset pattern, is passed through by    *)
(* the gate without running the token verifier or dev bypass (the          *)
(* memoised configuration, key set and signing key stay as they were),     *)
(* without attaching or altering any x-user-* header, and without setting  *)
(* a session cookie.                                                       *)
(***************************************************************************)
C21_OpenRequestPassedThrough ==
    /\ []((gReq # <<>> /\ (gRequest.method = "OPTIONS"
                            \/ gRequest.pathname \in PUBLIC_PATHS
                            \/ \E p \in StaticPrefixes : StartsWith(gRequest.pathname, p))) =>
              /\ gResult.kind = "next"
              /\ gResult.verdict = "none" /\ ~gResult.ranBypass /\ gResult.via = "none"
              /\ gResult.identity = NoIdentity
              /\ \A n \in UserHeaderNames : gResult.headers[n] = gRequest.headers[n]
              /\ gResult.cookie = <<>>)
    /\ [][(gReq = <<>> /\ gReq' # <<>>
             /\ (gReq'[1].method = "OPTIONS" \/ isPublicPath(gReq'[1].pathname))) =>
                UNCHANGED procVars]_vars

\* A preflight that carries a valid token, a matching x-dev-auth and an
\* x-user-sub of its own, in development with sessions issued: passed
\* through as it came.
C21_WitnessPreflight ==
    /\ gReq # <<>> /\ gRequest.method = "OPTIONS"
    /\ gRequest.accessHeader.raw = "jwt" /\ gRequest.accessHeader.signedBy = "idp"
    /\ isDev(env) /\ gDevMatch /\ ~shouldBypassSession(env)
    /\ env["SESSION_SECRET"] = SessionSecrets[1]
    /\ gRequest.headers["x-user-sub"] = "a"
    /\ gResult.kind = "next" /\ gResult.headers["x-user-sub"] = "a"
    /\ gResult.cookie = <<>>

\* A static asset and a public path, passed through.
C21_WitnessStatic ==
    /\ gReq # <<>> /\ gRequest.pathname = "/_next/static/chunk.js" /\ gResult.kind = "next"
C21_WitnessPublic ==
    /\ gReq # <<>> /\ gRequest.pathname = "/api/health" /\ gResult.kind = "next"

\* The gate authenticated the request: the verifier or the dev bypass gave
\* an identity.
gAuthenticated == gProtected /\ gResult.via \in {"token", "dev"}
\* The session token the codec mints for the identity.
gMinted == createSessionValue(gResult.identity, 0, env, keyPromise)
\* The signing key is, or can be, established.
gKeyAvailable == keyPromise # Null \/ ~getSessionSecretThrows(env)

(***************************************************************************)
(* C22 as stated: on every request the gate authenticates successfully, it *)
(* mints a fresh session token for the identity and sets it as the session *)
(* cookie, regardless of any session cookie already on the request, unless *)
(* session issuance is disabled (DEV_AUTH_BYPASS_SESSION truthy), in which *)
(* case no session cookie is set; no cookie is ever set on a redirect or   *)
(* pass-through response.                                                  *)
(***************************************************************************)
C22_AuthenticatedGetsFreshCookie ==
    gReq # <<>> =>
        /\ (gAuthenticated /\ ~shouldBypassSession(env)) =>
              /\ gResult.kind = "next"
              /\ gResult.cookie # <<>> /\ gResult.cookie = gMinted.value
        /\ (gAuthenticated /\ shouldBypassSession(env)) =>
              gResult.kind = "next" /\ gResult.cookie = <<>>
        /\ ~gAuthenticated => gResult.cookie = <<>>

(***************************************************************************)
(* C22 as amended: the same when the signing key is or can be established  *)
(* (SESSION_SECRET of at least 32 characters); when session issuance is    *)
(* not disabled and the key cannot be established, the gate throws on an   *)
(* authenticated request: the request is not passed on and no cookie is    *)
(* set.                                                                    *)
(***************************************************************************)
C22_AuthenticatedGetsFreshCookieOrThrows ==
    gReq # <<>> =>
        /\ (gAuthenticated /\ ~shouldBypassSession(env) /\ gKeyAvailable) =>
              /\ gResult.kind = "next"
              /\ gResult.cookie # <<>> /\ gResult.cookie = gMinted.value
        /\ (gAuthenticated /\ ~shouldBypassSession(env) /\ ~gKeyAvailable) =>
              gResult.kind = "throw" /\ gResult.cookie = <<>>
        /\ (gAuthenticated /\ shouldBypassSession(env)) =>
              gResult.kind = "next" /\ gResult.cookie = <<>>
        /\ ~gAuthenticated => gResult.cookie = <<>>
        /\ gResult.kind \in {"redirect", "throw"} => gResult.cookie = <<>>

\* A request of subject b that brings a's session cookie is issued b's.
C22_WitnessReissued ==
    /\ gReq # <<>> /\ gAuthenticated /\ gResult.kind = "next"
    /\ gRequest.sessionCookie # <<>>
    /\ gResult.identity.sub = "b"
    /\ gResult.cookie # <<>> /\ gResult.cookie # gRequest.sessionCookie
    /\ parseSessionValue(gResult.cookie, env, keyPromise).payload.sub = "b"

\* A request of subject a that brings its valid session cookie is issued
\* one all the same.
C22_WitnessReissuedSame ==
    /\ gReq # <<>> /\ gAuthenticated /\ gResult.kind = "next"
    /\ gRequest.sessionCookie # <<>> /\ gResult.cookie = gRequest.sessionCookie

\* Session issuance disabled: authenticated, no cookie.
C22_WitnessDisabled ==
    /\ gReq # <<>> /\ gAuthenticated /\ shouldBypassSession(env)
    /\ gResult.kind = "next" /\ gResult.cookie = <<>>

(***************************************************************************)
(* SpecMemo: resolveAccessConfig and getKey called one after the other in  *)
(* one process while the environment variables they read are changed in    *)
(* between.                                                                *)
(***************************************************************************)
MemoEnvs ==
    {[BaseEnv EXCEPT !["CF_ACCESS_AUD"] = aud, !["CF_ACCESS_TEAM_DOMAIN"] = team,
                     !["SESSION_SECRET"] = secret] :
        aud \in {Null, "aud1"}, team \in {Null, "team.example"},
        secret \in {Null, SessionSecrets[1]}}

\* The values the variables are changed to.
MemoSettings ==
    ({"CF_ACCESS_AUD"} \X {Null, "aud1", "aud2"})
    \cup ({"CF_ACCESS_CERTS_URL"} \X {Null, "https://keys.example/jwks"})
    \cup ({"CF_ACCESS_LOGIN_URL"} \X {Null, "https://login.example/"})
    \cup ({"CF_ACCESS_TEAM_DOMAIN"} \X {Null, "team.example"})
    \cup ({"SESSION_SECRET"} \X {Null, "tooshort", SessionSecrets[1], SessionSecrets[2]})

InitMemo ==
    /\ env \in MemoEnvs
    /\ InitProc
    /\ InitSessIdle
    /\ InitAuthIdle
    /\ InitOrch

\* process.env[name] = value (or delete process.env[name]) between calls.
MemoSetEnv(name, value) ==
    /\ kIn = <<>>
    /\ env[name] # value
    /\ env' = [env EXCEPT ![name] = value]
    /\ UNCHANGED <<keyPromise, cachedConfig, cachedJwks, sessVars, authVars, accessorVars,
                   orchVars>>

MemoResolveAccessConfig ==
    /\ kIn = <<>>
    /\ kIn' = <<"resolveAccessConfig">>
    /\ LET r == resolveAccessConfig(env, cachedConfig)
       IN  /\ kOut' = [NoMemo EXCEPT !.ok = r.ok,
                                     !.config = IF r.ok THEN <<r.config>> ELSE <<>>]
           /\ cachedConfig' = r.cachedConfig
           /\ kFirst' = IF r.ok /\ kFirst.config = <<>>
                        THEN [kFirst EXCEPT !.config = <<r.config>>] ELSE kFirst
    /\ UNCHANGED <<env, keyPromise, cachedJwks, sessVars, parseVars, bypassVars, verifyVars,
                   gateVars, accessorVars, orchVars>>

MemoGetKey ==
    /\ kIn = <<>>
    /\ kIn' = <<"getKey">>
    /\ LET r == getKey(env, keyPromise)
       IN  /\ kOut' = [NoMemo EXCEPT !.ok = r.ok, !.key = r.key]
           /\ keyPromise' = r.keyPromise
           /\ kFirst' = IF r.ok /\ kFirst.key = Null
                        THEN [kFirst EXCEPT !.key = r.key] ELSE kFirst
    /\ UNCHANGED <<env, cachedConfig, cachedJwks, sessVars, parseVars, bypassVars, verifyVars,
                   gateVars, accessorVars, orchVars>>

MemoReturn ==
    /\ kIn # <<>>
    /\ kIn' = <<>>
    /\ kOut' = NoMemo
    /\ UNCHANGED <<procVars, kFirst, sessVars, parseVars, bypassVars, verifyVars,
                   gateVars, accessorVars, orchVars>>

NextMemo ==
    \/ \E setting \in MemoSettings : MemoSetEnv(setting[1], setting[2])
    \/ MemoResolveAccessConfig
    \/ MemoGetKey
    \/ MemoReturn

SpecMemo == InitMemo /\ [][NextMemo]_vars

(***************************************************************************)
(* C23: the identity-provider configuration and the session signing key    *)
(* are each established on first successful use and never change           *)
(* afterwards in the process: after a first successful resolveAccessConfig *)
(* (resp. getKey), every later call returns the same value even if the     *)
(* environment variables (audience, certs URL, login URL, SESSION_SECRET)  *)
(* are changed in between.                                                 *)
(***************************************************************************)
C23_MemoisedForTheProcess ==
    /\ [](/\ cachedConfig = kFirst.config
          /\ keyPromise = kFirst.key
          /\ (kIn = <<"resolveAccessConfig">> /\ kFirst.config # <<>>) =>
                kOut.ok /\ kOut.config = kFirst.config
          /\ (kIn = <<"getKey">> /\ kFirst.key # Null) =>
                kOut.ok /\ kOut.key = kFirst.key)
    /\ [][/\ cachedConfig # <<>> => cachedConfig' = cachedConfig
          /\ keyPromise # Null => keyPromise' = keyPromise
          /\ kFirst.config # <<>> => kFirst'.config = kFirst.config
          /\ kFirst.key # Null => kFirst'.key = kFirst.key]_vars

\* A later resolveAccessConfig returns the first configuration although
\* audience, certs URL and login URL are now others.
C23_WitnessConfigKept ==
    /\ kIn = <<"resolveAccessConfig">> /\ kOut.ok
    /\ kOut.config[1].audience = "aud1" /\ env["CF_ACCESS_AUD"] = "aud2"
    /\ kOut.config[1].certsUrl = IdpCertsUrl
    /\ env["CF_ACCESS_CERTS_URL"] = "https://keys.example/jwks"
    /\ env["CF_ACCESS_LOGIN_URL"] = "https://login.example/"
    /\ kOut.config[1].loginUrl # env["CF_ACCESS_LOGIN_URL"]

\* A later getKey returns the first key although SESSION_SECRET is now
\* another, or unset.
C23_WitnessKeyKept ==
    /\ kIn = <<"getKey">> /\ kOut.ok
    /\ kOut.key = SessionSecrets[1] /\ env["SESSION_SECRET"] = SessionSecrets[2]
C23_WitnessKeyKeptUnset ==
    /\ kIn = <<"getKey">> /\ kOut.ok
    /\ kOut.key = SessionSecrets[1] /\ env["SESSION_SECRET"] = Null

\* Two script requests for one project have both read the same last
\* version: each read it before the other inserted.
Raced(s, t) ==
    /\ s # t
    /\ H(s).route = "script" /\ H(t).route = "script"
    /\ H(s).selected /\ H(t).selected
    /\ H(s).project = H(t).project
    /\ H(s).lastVersion = H(t).lastVersion

\* The rows of the version both requests went for.
RacedFor(s) ==
    {v \in project_versions :
        v.project_id = H(s).project /\ v.version = H(s).lastVersion + 1}

(***************************************************************************)
(* C24 as stated: two concurrent script-generation requests for the same   *)
(* project can interleave so that both read the same maximum version       *)
(* before either inserts; in that interleaving exactly one insert succeeds *)
(* and the other request hits the uniqueness violation after its provider  *)
(* call was already made, ending with its GenerationJob failed and an HTTP *)
(* 500 (no lost update, no retry).                                         *)
(***************************************************************************)
C24_RaceLoserEndsFailed500 ==
    \A s, t \in InFlight :
        (Raced(s, t) /\ "version" \in H(s).made
                     /\ H(t).cause = "UNIQUE constraint failed" /\ Ended(H(t))) =>
            /\ "version" \notin H(t).made
            /\ H(t).providerCalls = 1
            /\ ~H(t).threw
            /\ H(t).response = Response(500, FailureMessage("script"))
            /\ \E j \in generation_jobs : j.id = H(t).job /\ j.status = "failed"

(***************************************************************************)
(* C24, the part that holds: in that interleaving at most one of the two   *)
(* inserts; the version both went for has one row, with the script of the  *)
(* request that inserted it (no lost update); the INSERT of the other,     *)
(* made after its one provider call, is rejected by the unique index (or   *)
(* failed before the winner's insert for a storage fault), it is not       *)
(* retried, and the request writes no version, project metadata or cache   *)
(* entry; when its handler returns, the response is the 500 and its job is *)
(* failed with the violation as error.                                     *)
(***************************************************************************)
C24_RaceOneInsertOtherRejected ==
    /\ [](\A s, t \in InFlight :
            (Raced(s, t) /\ "version" \in H(s).made) =>
                /\ "version" \notin H(t).made
                /\ \A v \in RacedFor(s) : v.script = H(s).result
                /\ Cardinality(RacedFor(s)) = 1
                /\ H(t).providerCalls = 1
                /\ H(t).made \cap {"version", "projectUpdate", "cache"} = {}
                /\ H(t).pc # "versionInsert" =>
                      H(t).cause \in {"UNIQUE constraint failed", "database error"}
                /\ (Ended(H(t)) /\ ~H(t).threw) =>
                      /\ H(t).response = Response(500, FailureMessage("script"))
                      /\ \E j \in generation_jobs :
                            /\ j.id = H(t).job /\ j.status = "failed"
                            /\ j.error = H(t).cause)
    /\ [][\A t \in Slots :
            (H(t).pc = "versionInsert" /\ handlers'[t].pc # "versionInsert"
             /\ RacedFor(t) # {}) =>
                /\ handlers'[t].pc = "catch"
                /\ handlers'[t].cause = "UNIQUE constraint failed"
                /\ project_versions' = project_versions]_vars

\* The race has happened: both read version 0 of the project, one inserted
\* version 1, the other was rejected and answered 500, its job failed.
C24_WitnessRace ==
    \E s, t \in InFlight :
        /\ Raced(s, t) /\ "version" \in H(s).made
        /\ H(t).cause = "UNIQUE constraint failed" /\ H(t).providerCalls = 1
        /\ Ended(H(t)) /\ H(t).response.status = 500
        /\ Ended(H(s)) /\ H(s).response.status = 200
        /\ \E j \in generation_jobs :
              j.id = H(t).job /\ j.status = "failed" /\ j.error = "UNIQUE constraint failed"

\* A script request with regenerate unset that read the cache and missed.
Missed(h) ==
    /\ h.route = "script" /\ ~h.payload.regenerate
    /\ h.pc = "insertJob" \/ h.job # Null

\* The entries of the cache under the key of the request.
EntriesFor(h) == {c \in CACHE : c.key = cacheKey(h.payload)}

(***************************************************************************)
(* C25: there is no single-flight suppression: two concurrent              *)
(* script-generation requests with identical topic/persona/length/language *)
(* and regenerate unset, both reading the cache before either has written  *)
(* it, both miss, both create a GenerationJob and both invoke the          *)
(* provider; the cache then holds the result of whichever request wrote    *)
(* last.                                                                   *)
(***************************************************************************)
C25_NoSingleFlight ==
    /\ [](\A s \in InFlight :
            /\ Missed(H(s)) =>
                  /\ H(s).pc # "insertJob" =>
                        \E j \in generation_jobs : j.id = H(s).job /\ j.creator = H(s).n
                  /\ H(s).pc \notin {"insertJob", "provider"} => H(s).providerCalls = 1
                  /\ \A t \in InFlight :
                        (t # s /\ H(t).job # Null /\ H(s).job # Null) => H(t).job # H(s).job
            /\ Cardinality(EntriesFor(H(s))) <= 1)
    /\ [][\A s \in Slots :
            /\ (H(s).pc = "cacheGet" /\ handlers'[s].pc # "cacheGet" /\ EntriesFor(H(s)) = {}) =>
                  handlers'[s].pc = "insertJob"
            /\ (H(s).pc = "cachePut" /\ handlers'[s].pc = "jobSucceeded") =>
                  CACHE' = (CACHE \ EntriesFor(H(s)))
                               \cup {[key |-> cacheKey(H(s).payload), value |-> H(s).result,
                                      writer |-> H(s).n]}]_vars

\* Two identical requests have both missed, both made a job and a provider
\* call and both written the cache, which holds the result of the second
\* writer only.
C25_WitnessBothGenerated ==
    \E s, t \in InFlight :
        /\ s # t
        /\ Missed(H(s)) /\ Missed(H(t))
        /\ cacheKey(H(s).payload) = cacheKey(H(t).payload)
        /\ H(s).first = 0 /\ H(t).first = 0
        /\ Ended(H(s)) /\ Ended(H(t))
        /\ H(s).providerCalls = 1 /\ H(t).providerCalls = 1
        /\ H(s).job # H(t).job /\ H(s).result # H(t).result
        /\ "cache" \in H(s).made /\ "cache" \in H(t).made
        /\ EntriesFor(H(s)) = {[key |-> cacheKey(H(s).payload), value |-> H(t).result,
                                 writer |-> H(t).n]}

\* The GenerationJob rows the request of handler h inserted.
JobsOf(h) == {j \in generation_jobs : j.creator = h.n}

(***************************************************************************)
(* C26: in every generation request the GenerationJob row in status        *)
(* running is written before the provider is invoked, and a request        *)
(* creates at most one GenerationJob: the provider is never called by a    *)
(* request that has not recorded a running job, and requests answered 400, *)
(* 401, 403 or from the cache create no job.                               *)
(***************************************************************************)
C26_RunningJobBeforeProvider ==
    /\ [](\A s \in InFlight :
            /\ Cardinality(JobsOf(H(s))) <= 1
            /\ \A j \in JobsOf(H(s)) : j.id = H(s).job /\ j.job_type = H(s).route
            /\ H(s).providerCalls > 0 => JobsOf(H(s)) # {}
            /\ (Ended(H(s)) /\ ~H(s).threw
                 /\ (H(s).response.status \in {400, 401, 403} \/ H(s).response.cached)) =>
                    /\ JobsOf(H(s)) = {} /\ H(s).job = Null
                    /\ H(s).providerCalls = 0)
    /\ [][\A s \in Slots :
            /\ (H(s).pc # "idle" /\ handlers'[s].providerCalls > H(s).providerCalls) =>
                  \E j \in generation_jobs :
                      j.id = H(s).job /\ j.creator = H(s).n /\ j.status = "running"
            /\ \A j \in generation_jobs' :
                  j.id \notin {i.id : i \in generation_jobs} => j.status = "running"]_vars

\* A tts request has called the provider twice under its one running job.
C26_WitnessTwoCallsOneJob ==
    \E s \in InFlight :
        /\ H(s).route = "tts" /\ H(s).providerCalls = 2
        /\ Cardinality(JobsOf(H(s))) = 1
        /\ \A j \in JobsOf(H(s)) : j.status = "running"

\* Requests answered 403 and from the cache, without a job.
C26_WitnessRefused ==
    \E s \in InFlight :
        Ended(H(s)) /\ H(s).response.status = 403 /\ JobsOf(H(s)) = {}
C26_WitnessCached ==
    \E s \in InFlight :
        Ended(H(s)) /\ H(s).response.cached /\ JobsOf(H(s)) = {} /\ generation_jobs # {}

\* The writes of the script route's try block, in the order of the text.
ScriptWrites == <<"version", "projectUpdate", "cache">>
\* The first k of them.
FirstWrites(k) == {ScriptWrites[i] : i \in 1..k}

(***************************************************************************)
(* C27: within one successful script request the writes happen in this     *)
(* order: insert ProjectVersion, update Project metadata to status ready,  *)
(* put the result in the cache, set the job to succeeded.  Hence a script  *)
(* job in status succeeded implies that a ProjectVersion for its project   *)
(* was inserted by that request, the project is ready, and the cache entry *)
(* for the request's key was written.                                      *)
(***************************************************************************)
C27_ScriptWritesInOrder ==
    /\ [](/\ \A s \in InFlight :
                H(s).route = "script" =>
                    /\ \E k \in 0..3 : H(s).made \cap FirstWrites(3) = FirstWrites(k)
                    /\ \A j \in JobsOf(H(s)) :
                          j.status = "succeeded" =>
                              /\ FirstWrites(3) \subseteq H(s).made
                              /\ \E v \in project_versions :
                                    /\ v.project_id = j.project_id
                                    /\ v.script = H(s).result
                                    /\ v.version = H(s).lastVersion + 1
          /\ \A j \in generation_jobs :
                (j.job_type = "script" /\ j.status = "succeeded") =>
                    /\ \E v \in project_versions : v.project_id = j.project_id
                    /\ \E p \in projects : p.id = j.project_id /\ p.status = "ready")
    /\ [][\A s \in Slots :
            (H(s).pc # "idle" /\ handlers'[s].pc # "idle" /\ H(s).route = "script") =>
                /\ ("version" \in handlers'[s].made \ H(s).made) =>
                      /\ H(s).made \cap FirstWrites(3) = {}
                      /\ Cardinality(project_versions') = Cardinality(project_versions) + 1
                /\ ("projectUpdate" \in handlers'[s].made \ H(s).made) =>
                      /\ H(s).made \cap FirstWrites(3) = FirstWrites(1)
                      /\ \E p \in projects' : p.id = H(s).project /\ p.status = "ready"
                /\ ("cache" \in handlers'[s].made \ H(s).made) =>
                      /\ H(s).made \cap FirstWrites(3) = FirstWrites(2)
                      /\ \E c \in CACHE' :
                            c.key = cacheKey(H(s).payload) /\ c.value = H(s).result
                /\ (\E j \in generation_jobs' :
                        /\ j.id = H(s).job /\ j.status = "succeeded"
                        /\ \E i \in generation_jobs : i.id = j.id /\ i.status # "succeeded") =>
                      FirstWrites(3) \subseteq H(s).made]_vars

\* A script request has succeeded: its four writes are made.
C27_WitnessSucceeded ==
    \E s \in InFlight :
        /\ H(s).route = "script" /\ Ended(H(s)) /\ H(s).response.status = 200
        /\ ~H(s).response.cached
        /\ FirstWrites(3) \subseteq H(s).made
        /\ \E j \in JobsOf(H(s)) : j.status = "succeeded"

\* A script request failed at the cache put: the version and the project
\* update are made, the job is failed.
C27_WitnessFailedAtCache ==
    \E s \in InFlight :
        /\ H(s).route = "script" /\ Ended(H(s)) /\ H(s).cause = "cache error"
        /\ H(s).made \cap FirstWrites(3) = FirstWrites(2)
        /\ \E j \in JobsOf(H(s)) : j.status = "failed"

\* A script request with regenerate set, from an authenticated caller and
\* with a valid body.
Regenerating(h) ==
    /\ h.route = "script" /\ Truthy(h.sub) /\ h.payload.json /\ Truthy(h.payload.topic)
    /\ h.payload.regenerate

\* The request has resolved its project (found it owned, or created it).
Resolved(h) == h.project # Null

(***************************************************************************)
(* C28 as stated: a script request with regenerate set never reads the     *)
(* cache: it always creates a GenerationJob and invokes the provider even  *)
(* when an entry for its key exists, responds cached: false, and on        *)
(* success overwrites the cache entry for that key with the new result.    *)
(***************************************************************************)
C28_RegenerateAlwaysGenerates ==
    \A s \in InFlight :
        (Regenerating(H(s)) /\ Ended(H(s)) /\ ~H(s).threw) =>
            /\ "job" \in H(s).made
            /\ H(s).providerCalls = 1
            /\ ~H(s).response.cached

(***************************************************************************)
(* C28 as amended: a script request with regenerate set never reads the    *)
(* cache and is never answered cached: true.  When it has resolved its     *)
(* project (it names none, or one of its caller's) it creates a            *)
(* GenerationJob and invokes the provider once, even when an entry for its *)
(* key exists; when it succeeds it responds 200 with cached: false and the *)
(* new result, having replaced the cache entry of its key by that result.  *)
(* A request with regenerate set that names a missing or a foreign project *)
(* is answered 400 or 403 and creates no job.                              *)
(***************************************************************************)
C28_ResolvedRegenerateGenerates ==
    /\ [](\A s \in InFlight :
            Regenerating(H(s)) =>
                /\ H(s).pc # "cacheGet"
                /\ ~H(s).response.cached
                /\ Resolved(H(s)) =>
                      /\ H(s).pc = "insertJob" \/ "job" \in H(s).made
                      /\ H(s).pc \notin {"insertJob", "provider"} => H(s).providerCalls = 1
                /\ (Ended(H(s)) /\ ~H(s).threw /\ ~Resolved(H(s))) =>
                      /\ H(s).response.status \in {400, 403}
                      /\ ~OwnProject(H(s))
                      /\ "job" \notin H(s).made /\ H(s).providerCalls = 0
                /\ (Ended(H(s)) /\ H(s).response.status = 200) =>
                      /\ H(s).response.result = H(s).result
                      /\ "cache" \in H(s).made)
    /\ [][\A s \in Slots :
            (Regenerating(H(s)) /\ "cache" \in handlers'[s].made \ H(s).made) =>
                {c \in CACHE' : c.key = cacheKey(H(s).payload)}
                    = {[key |-> cacheKey(H(s).payload), value |-> H(s).result,
                        writer |-> H(s).n]}]_vars

\* A regenerate request that found an entry under its key when it arrived
\* has generated all the same and replaced the entry.
C28_WitnessRegeneratedOverEntry ==
    \E s \in InFlight :
        /\ Regenerating(H(s)) /\ Ended(H(s)) /\ H(s).response.status = 200
        /\ H(s).first # 0 /\ H(s).first # H(s).n /\ ~H(s).expired
        /\ H(s).providerCalls = 1 /\ "job" \in H(s).made
        /\ H(s).result # H(s).firstValue
        /\ \E c \in CACHE : c.key = cacheKey(H(s).payload) /\ c.value = H(s).result

\* A regenerate request for another user's project: 403, no job.
C28_WitnessForeign ==
    \E s \in InFlight :
        /\ Regenerating(H(s)) /\ Ended(H(s)) /\ H(s).response.status = 403
        /\ "job" \notin H(s).made

\* One of the four hashed fields as JSON.stringify sees it: a member the
\* body does not have reads as null.
Hashed(v) == IF v = Absent THEN Null ELSE v

\* A script request that has computed its cache key.
Keyed(h) == h.route = "script" /\ h.key # Null

\* Two bodies equal on topic, persona, lengthMinutes and language.
SameFour(p, q) ==
    /\ p.topic = q.topic
    /\ Hashed(p.persona) = Hashed(q.persona)
    /\ Hashed(p.lengthMinutes) = Hashed(q.lengthMinutes)
    /\ Hashed(p.language) = Hashed(q.language)

(***************************************************************************)
(* C29: the script cache key is a deterministic function of exactly        *)
(* (topic, persona, lengthMinutes, language), an absent field read as      *)
(* null: two requests equal on the four fields have the same key whatever  *)
(* their subject, projectId or regenerate flag, two requests that differ   *)
(* on one of them have different keys (sha256 taken collision-free), and   *)
(* the cache read of a request answers with the entry under its key        *)
(* whoever wrote it, so that a result cached for one user is returned to   *)
(* another user who sends the same four fields.                            *)
(***************************************************************************)
C29_KeyIsTheFourFields ==
    /\ [](\A s, t \in InFlight :
            (Keyed(H(s)) /\ Keyed(H(t))) =>
                (H(s).key = H(t).key <=> SameFour(H(s).payload, H(t).payload)))
    /\ [](\A c \in CACHE : \A s \in InFlight :
            Keyed(H(s)) => (c.key = H(s).key <=>
                /\ c.key[2] = H(s).payload.topic
                /\ c.key[3] = Hashed(H(s).payload.persona)
                /\ c.key[4] = Hashed(H(s).payload.lengthMinutes)
                /\ c.key[5] = Hashed(H(s).payload.language)))
    /\ [][\A s \in Slots :
            (H(s).pc = "cacheGet" /\ handlers'[s].pc # "cacheGet") =>
                LET same == {c \in CACHE : c.key = H(s).key}
                IN  IF same = {}
                    THEN handlers'[s].pc = "insertJob"
                    ELSE /\ handlers'[s].response.status = 200
                         /\ handlers'[s].response.cached
                         /\ \E c \in same : handlers'[s].response.result = c.value]_vars

\* User b is answered with the result that user a's request generated and
\* cached, for a body that leaves persona out where a's had it null.
C29_WitnessCrossUserHit ==
    \E s, t \in InFlight :
        /\ H(s).sub = "a" /\ H(t).sub = "b"
        /\ Ended(H(s)) /\ "cache" \in H(s).made
        /\ Ended(H(t)) /\ H(t).response.cached /\ H(t).response.result = H(s).result
        /\ H(t).first = H(s).n
        /\ H(s).payload.persona # H(t).payload.persona

\* Two requests of one user with the same key, one naming the project the
\* other created.
C29_WitnessSameKeyOtherProject ==
    \E s, t \in InFlight :
        /\ Keyed(H(s)) /\ Keyed(H(t)) /\ H(s).key = H(t).key
        /\ H(s).payload.projectId = Null /\ H(t).payload.projectId = H(s).project

\* Two requests with the same key, one with regenerate set and one without.
C29_WitnessSameKeyRegenerate ==
    \E s, t \in InFlight :
        /\ Keyed(H(s)) /\ Keyed(H(t)) /\ H(s).key = H(t).key /\ H(s).sub # H(t).sub
        /\ H(s).payload.regenerate /\ ~H(t).payload.regenerate

\* Two requests that differ in persona only, each served its own result.
C29_WitnessDifferentKeys ==
    \E s, t \in InFlight :
        /\ Keyed(H(s)) /\ Keyed(H(t)) /\ H(s).key # H(t).key
        /\ H(s).payload.topic = H(t).payload.topic
        /\ Ended(H(s)) /\ Ended(H(t))
        /\ H(s).response.status = 200 /\ H(t).response.status = 200
        /\ ~H(s).response.cached /\ ~H(t).response.cached

\* No two rows of a table have the same id.
UniqueIds(rows) == \A r, q \in rows : r.id = q.id => r = q

(***************************************************************************)
(* C30: ProjectVersion and Asset rows are append-only: every step of every *)
(* request, successful, failed or concurrent, leaves each ProjectVersion   *)
(* and Asset row that exists in its table unchanged (and ids are never     *)
(* reused), and leaves each Project row in place with the user_id it was   *)
(* created with.                                                           *)
(***************************************************************************)
C30_AppendOnlyRowsFixedOwner ==
    /\ [](UniqueIds(project_versions) /\ UniqueIds(assets) /\ UniqueIds(projects))
    /\ [][/\ project_versions \subseteq project_versions'
           /\ assets \subseteq assets'
           /\ \A p \in projects :
                 \E q \in projects' : q.id = p.id /\ q.user_id = p.user_id]_vars

\* Two script requests on one project, the second failed after its version
\* was inserted: both versions are there, the first as it was inserted, and
\* the project, updated to ready by the first, is still its creator's.
C30_WitnessVersionsKept ==
    \E s, t \in InFlight :
        /\ s # t /\ H(s).project = H(t).project /\ H(s).n < H(t).n
        /\ Ended(H(s)) /\ H(s).response.status = 200 /\ "projectUpdate" \in H(s).made
        /\ Ended(H(t)) /\ H(t).response.status = 500 /\ "version" \in H(t).made
        /\ \E v, w \in project_versions :
              /\ v.project_id = H(s).project /\ w.project_id = H(s).project
              /\ v.version = 1 /\ v.script = H(s).result
              /\ w.version = 2 /\ w.script = H(t).result
        /\ \E p \in projects :
              p.id = H(s).project /\ p.status = "ready" /\ p.user_id = H(s).user

\* A tts request that failed at its second section, on the project a
\* script request made: the asset of its first section is in the table, and
\* so is the version of the script request.
C30_WitnessAssetKept ==
    \E s, t \in InFlight :
        /\ H(s).route = "tts" /\ Ended(H(s)) /\ H(s).response.status = 500
        /\ H(s).i = 2 /\ Len(H(s).results) = 1
        /\ \E a \in assets : a.id = H(s).results[1] /\ a.project_id = H(s).project
        /\ H(t).route = "script" /\ H(t).project = H(s).project /\ "version" \in H(t).made
        /\ \E v \in project_versions : v.project_id = H(t).project /\ v.script = H(t).result

\* The header the handler should see for a value of the verified identity:
\* the value, or no header when the identity has none.
FromIdentity(v) == IF Truthy(v) THEN v ELSE Null

(***************************************************************************)
(* C31: the x-user-email and x-user-name headers a handler sees after the  *)
(* gate are determined by the verified identity alone: when the identity   *)
(* carries no email (no name), the handler sees no x-user-email (no        *)
(* x-user-name) header, even if the client request supplied one.           *)
(***************************************************************************)
C31_ProfileHeadersFromIdentity ==
    (gReq # <<>> /\ gAuthenticated /\ gResult.kind = "next") =>
        /\ gResult.headers["x-user-email"] = FromIdentity(gResult.identity.email)
        /\ gResult.headers["x-user-name"] = FromIdentity(gResult.identity.name)

\* What the gate does: the identity's value when it has one, and otherwise
\* whatever the client sent.
C31_ProfileHeadersFromIdentityOrClient ==
    (gReq # <<>> /\ gAuthenticated /\ gResult.kind = "next") =>
        /\ gResult.headers["x-user-email"] =
              (IF Truthy(gResult.identity.email) THEN gResult.identity.email
               ELSE gRequest.headers["x-user-email"])
        /\ gResult.headers["x-user-name"] =
              (IF Truthy(gResult.identity.name) THEN gResult.identity.name
               ELSE gRequest.headers["x-user-name"])

\* A token of subject b without email or name, and a client that sends
\* x-user-email and x-user-name: the handler sees the client's values.
C31_WitnessClientProfileForwarded ==
    /\ gReq # <<>> /\ gAuthenticated /\ gResult.kind = "next" /\ gResult.via = "token"
    /\ gResult.identity.sub = "b" /\ gResult.identity.email = Null
    /\ gResult.headers["x-user-sub"] = "b"
    /\ gResult.headers["x-user-email"] = "m@x" /\ gResult.headers["x-user-name"] = "Mal"

\* A script request whose GenerationJob is in status failed.
ScriptJobFailed(h) ==
    h.route = "script" /\ \E j \in JobsOf(h) : j.status = "failed"

(***************************************************************************)
(* C32: if a script GenerationJob ends in status failed, the request that  *)
(* created it added no ProjectVersion and did not change the Project's     *)
(* status or title, including when the failing step is the cache write or  *)
(* the final job-status update.                                            *)
(***************************************************************************)
C32_FailedScriptJobWroteNothing ==
    \A s \in InFlight :
        ScriptJobFailed(H(s)) =>
            /\ "version" \notin H(s).made
            /\ "projectUpdate" \notin H(s).made

\* What the route does: the writes made before the failing step stay.  A
\* failed script job has the writes that precede its failing step, each in
\* the tables: the version with the generated script, the project ready
\* and titled by the result.
C32_FailedScriptJobKeepsEarlierWrites ==
    \A s \in InFlight :
        ScriptJobFailed(H(s)) =>
            /\ \E k \in 0..3 : H(s).made \cap FirstWrites(3) = FirstWrites(k)
            /\ H(s).cause = "provider error" => H(s).made \cap FirstWrites(3) = {}
            /\ H(s).cause = "cache error" => H(s).made \cap FirstWrites(3) = FirstWrites(2)
            /\ "version" \in H(s).made =>
                  \E v \in project_versions :
                      v.project_id = H(s).project /\ v.script = H(s).result
            /\ "projectUpdate" \in H(s).made =>
                  \E p \in projects :
                      p.id = H(s).project /\ p.statuses[Len(p.statuses)] = "ready"

\* The final job-status update of a script request was rejected: the job is
\* failed, the response is 500, and the version, the ready project titled
\* by the result and the cache entry are all there.
C32_WitnessFailedAtJobUpdate ==
    \E s \in InFlight :
        /\ ScriptJobFailed(H(s)) /\ Ended(H(s)) /\ H(s).response.status = 500
        /\ FirstWrites(3) \subseteq H(s).made
        /\ \E v \in project_versions : v.project_id = H(s).project /\ v.script = H(s).result
        /\ \E p \in projects :
              p.id = H(s).project /\ p.status = "ready" /\ p.title = H(s).result
        /\ \E c \in CACHE : c.key = H(s).key /\ c.value = H(s).result

\* The request was answered from the cache.
AnsweredCached(h) == Ended(h) /\ h.response.cached

C33_WitnessNamedProject ==
    \E s \in InFlight :
        /\ AnsweredCached(H(s)) /\ Truthy(H(s).payload.projectId)
        /\ H(s).made \subseteq UserUpsert /\ Cardinality(projects) = 1

\* The request lost the race of two INSERTs for its subject: it found no
\* row, and its own INSERT was rejected.
LostUserInsert(h) == h.fresh /\ Ended(h) /\ h.threw /\ h.user = Null

(***************************************************************************)
(* C34: in every reachable state, interleavings of concurrent first        *)
(* requests of one new subject included, there is at most one User row per *)
(* access subject; when two such requests both miss the lookup and both    *)
(* insert, the INSERT of the second is rejected and that request fails     *)
(* there: it has created no Project and no GenerationJob and has invoked   *)
(* no provider.                                                            *)
(***************************************************************************)
C34_OneUserPerSubject ==
    /\ [](\A u, w \in users : u.access_sub = w.access_sub => u = w)
    /\ [](\A s \in InFlight :
            LostUserInsert(H(s)) =>
                /\ H(s).made = {} /\ H(s).providerCalls = 0
                /\ H(s).project = Null /\ H(s).job = Null
                /\ JobsOf(H(s)) = {}
                /\ \E u \in users : u.access_sub = H(s).sub)
    /\ [][\A s \in Slots :
            (H(s).pc = "ensureUserInsert" /\ handlers'[s].pc # "ensureUserInsert"
                 /\ \E u \in users : u.access_sub = H(s).sub) =>
                /\ handlers'[s].pc = "done" /\ handlers'[s].threw
                /\ users' = users /\ projects' = projects
                /\ generation_jobs' = generation_jobs]_vars

\* Two first requests of one subject, both past the lookup before either
\* inserted: one row, the winner went on to create its project, the loser
\* failed having written nothing.
C34_WitnessInsertRace ==
    \E s, t \in InFlight :
        /\ s # t /\ H(s).sub = H(t).sub /\ H(s).fresh /\ H(t).fresh
        /\ "user" \in H(s).made /\ "project" \in H(s).made
        /\ LostUserInsert(H(t)) /\ H(t).made = {}
        /\ Cardinality({u \in users : u.access_sub = H(s).sub}) = 1

TerminalStatuses == {"succeeded", "failed"}

(***************************************************************************)
(* C35: terminal job statuses are absorbing: once a GenerationJob has been *)
(* set to succeeded it is never set to failed, and a failed job is never   *)
(* set to succeeded or running, by its own request or by any other, in all *)
(* three orchestrators; no job row is ever removed, and a status is only   *)
(* ever written by the request that created the job.                       *)
(***************************************************************************)
C35_TerminalStatusAbsorbing ==
    /\ [][\A j \in generation_jobs :
            \E k \in generation_jobs' :
                /\ k.id = j.id /\ k.creator = j.creator /\ k.job_type = j.job_type
                /\ j.status \in TerminalStatuses =>
                      (k.status = j.status /\ k.updates = j.updates)]_vars
    /\ [](\A j \in generation_jobs :
            /\ j.job_type \in {"script", "tts", "image"}
            /\ \A i \in 1..Len(j.updates) : j.updates[i][1] = j.creator
            /\ \A k \in generation_jobs : k.id = j.id => k = j)

\* A succeeded script job and a failed tts job, both requests ended.
C35_WitnessBothTerminal ==
    \E j, k \in generation_jobs :
        /\ j.job_type = "script" /\ j.status = "succeeded"
        /\ k.job_type = "tts" /\ k.status = "failed"
        /\ \A s \in InFlight : Ended(H(s))

\* A succeeded script job beside a succeeded image job of a later request.
C35_WitnessSucceededKept ==
    \E j, k \in generation_jobs :
        /\ j.job_type = "script" /\ j.status = "succeeded" /\ Len(j.updates) = 1
        /\ k.job_type = "image" /\ k.status = "succeeded" /\ j.creator < k.creator

(***************************************************************************)
(* C36: every ProjectVersion inserted by a successful script generation    *)
(* stores, in its generated_with field, the provider name and model the    *)
(* script route passes when calling insertProjectVersion (generated_with   *)
(* is non-null for such rows).                                             *)
(***************************************************************************)
C36_VersionStoresProviderAndModel ==
    \A s \in InFlight :
        (H(s).route = "script" /\ Ended(H(s)) /\ H(s).response.status = 200
             /\ "version" \in H(s).made) =>
            \E v \in project_versions :
                /\ v.project_id = H(s).project /\ v.script = H(s).result
                /\ v.generated_with # Null
                /\ v.generated_with = ScriptVersionParams.generatedWith

\* What the code does: generated_with is null in every ProjectVersion row.
C36_GeneratedWithIsNull ==
    \A v \in project_versions : v.generated_with = Null

\* A successful script generation whose version row has no generated_with.
C36_WitnessVersionWithoutGeneratedWith ==
    \E s \in InFlight :
        /\ H(s).route = "script" /\ Ended(H(s)) /\ H(s).response.status = 200
        /\ ~H(s).response.cached
        /\ \E v \in project_versions :
              /\ v.project_id = H(s).project /\ v.script = H(s).result
              /\ v.generated_with = Null

====
